---- MODULE Spec2Model ----
(***************************************************************************)
(* pglock: a PostgreSQL-backed distributed lock (src/pglock/client.go).    *)
(*                                                                         *)
(* The lock table is a function from lock names to rows.  A transaction    *)
(* of the client is modelled in two steps, as the code issues it: the      *)
(* draw of the new record version number with nextval (sequences are not   *)
(* transactional, so the draw is visible at once), and the statements      *)
(* that read and write the row together with the commit, which a           *)
(* serializable database makes appear as one atomic step.  The database    *)
(* may refuse any transaction with SQLSTATE 40001 (serialization failure,  *)
(* reissued by Client.retry) or with a network error (surfaced).           *)
(***************************************************************************)
EXTENDS Integers, FiniteSets, Sequences, TLC

VARIABLES
    table,      \* the lock table: name -> row
    seq,        \* last value handed out by the sequence <table>_rvn
    lock,       \* handle -> the fields of the *Lock
    pc,         \* handle -> position of the AcquireContext call on it
    ctxDone,    \* handle -> the caller's context of AcquireContext is cancelled
    txRvn,      \* handle -> RVN drawn by the storeAcquire in flight
    hb,         \* handle -> position of the heartbeat goroutine
    hbRvn,      \* handle -> RVN drawn by the storeHeartbeat in flight
    hbCtxDone,  \* handle -> the context of the heartbeat goroutine is cancelled
    relResult,  \* handle -> what the last ReleaseContext returned
    installed,  \* history: name -> RVNs committed into the row so far
    learnt,     \* history: handle -> it made a failed attempt since it last held
    hbErr,      \* handle -> what the last SendHeartbeat returned
    firstRelease, \* history: handle -> what the Release that released it returned
    doErr,      \* handle -> the err of Do: what c.do last returned, what Do returns
    fReturned,  \* history: handle -> the values f returned during the Do
    acquired,   \* history: handle -> a storeAcquire of the Do committed
    leaseDuration, \* the lease of the client, in ticks
    timer,      \* ticks until time.After of the heartbeat goroutine fires
    txAge,      \* ticks the storeHeartbeat in flight has run
    sendAge,    \* ticks the SendHeartbeat in flight has run
    sinceRefresh, \* ticks since the RVN of the held row was installed
    sleepLease, \* l.leaseDuration of the handle in the wait loop, in ticks
    slept,      \* ticks the time.Sleep of the wait loop has run
    client,     \* the Client that New configured, and the error New returned
    retryCall,  \* a call of a public operation in Client.retry: its attempts
    getResult   \* what the last GetDataContext returned, and for which name

(* the state of Do, and the clock of the timed heartbeat *)
doVars == <<doErr, fReturned, acquired>>
timeVars == <<leaseDuration, timer, txAge, sendAge, sinceRefresh, sleepLease,
              slept>>

(* the calls that the claims about single functions are checked on *)
callVars == <<client, retryCall, getResult>>

(* the state of the lock protocol: everything but callVars *)
engineVars == <<table, seq, lock, pc, ctxDone, txRvn, hb, hbRvn, hbCtxDone,
                relResult, installed, learnt, hbErr, firstRelease, doVars,
                timeVars>>

vars == <<table, seq, lock, pc, ctxDone, txRvn, hb, hbRvn, hbCtxDone, relResult,
          installed, learnt, hbErr, firstRelease, doVars, timeVars, callVars>>

----------------------------------------------------------------------------
(* Bounds of the model: the number of handles (one AcquireContext call    *)
(* each), and the value of the sequence up to which new calls, heartbeats  *)
(* and reissued transactions begin. The attempts of a waiting call are not *)
(* capped: a waiter attempts again only after the row changed.             *)

NumHandles == 2
MaxSeq == 3

(* Bound of the attempts that one call of Client.retry makes *)
MaxAttempts == 3

(* Bounds of the timed heartbeat: the heartbeat frequency and the lease,   *)
(* in ticks of the clock                                                   *)
MaxFreq == 2
MaxLease == 5

(* time.Duration is a signed 64-bit integer; the model keeps the overflow  *)
(* of its arithmetic in a signed integer of DurationBits bits              *)
DurationBits == 5

Handles == 1..NumHandles
Names == {"a", "b"}
Data == {"", "P"}

(* NULL of SQL; the sequence only hands out positive numbers *)
NULL == -1

(* the outcomes of the public operations *)
ErrNotAcquired == "ErrNotAcquired"
ErrLockAlreadyReleased == "ErrLockAlreadyReleased"
ErrLockNotFound == "ErrLockNotFound"
ErrOther == "error"
(* an error of the kind errors.FailedPrecondition, which retry reissues *)
FailedPrecondition == "FailedPrecondition"

----------------------------------------------------------------------------
(* The schema and the SQL statements *)

NoRow == [exists |-> FALSE, rvn |-> NULL, data |-> ""]

(* SQL equality: a comparison with NULL is never true *)
SqlEq(a, b) == a # NULL /\ b # NULL /\ a = b

(* a sequence read that does not advance (currval for nextval) *)
getNextRVNStuck(s) == IF s = 0 THEN 1 ELSE s

(* SELECT nextval('<table>_rvn') *)
getNextRVN(s) == s + 1

(* the conditional update without its WHERE clause *)
UpsertWhereMissing(row, claimantRVN) == TRUE

(* the update only of a free row: no takeover of a held row *)
UpsertWhereFreeOnly(row, claimantRVN) == row.rvn = NULL

(* the conditional update comparing with >= for = *)
UpsertWhereAtLeast(row, claimantRVN) ==
    row.rvn = NULL \/ (claimantRVN # NULL /\ row.rvn >= claimantRVN)

(* INSERT ... ON CONFLICT ("name") DO UPDATE SET ... WHERE rvn IS NULL OR rvn = $4 *)
UpsertWhere(row, claimantRVN) == row.rvn = NULL \/ SqlEq(row.rvn, claimantRVN)

(* the upsert with SET "data" = $3 for the CASE *)
UpsertAlwaysReplaces(row, rvn, data, claimantRVN, replaceData) ==
    IF ~row.exists \/ UpsertWhere(row, claimantRVN)
    THEN [exists |-> TRUE, rvn |-> rvn, data |-> data]
    ELSE row

Upsert(row, rvn, data, claimantRVN, replaceData) ==
    IF ~row.exists
    THEN [exists |-> TRUE, rvn |-> rvn, data |-> data]
    ELSE IF UpsertWhere(row, claimantRVN)
         THEN [exists |-> TRUE, rvn |-> rvn,
               data |-> IF replaceData THEN data ELSE row.data]
         ELSE row

(* UPDATE ... SET rvn = NULL WHERE name = $1 AND rvn = $2, then the DELETE *)
(* the UPDATE of storeRelease without the comparison of the RVN *)
ReleaseAffectedAnyHolder(row, rvn) == row.exists /\ row.rvn # NULL

(* the UPDATE of storeRelease also matching a free row *)
ReleaseAffectedAlsoFree(row, rvn) ==
    row.exists /\ (row.rvn = NULL \/ SqlEq(row.rvn, rvn))

ReleaseAffected(row, rvn) == row.exists /\ SqlEq(row.rvn, rvn)

(* the release without the test of keepOnRelease before the DELETE *)
ReleaseRowAlwaysDelete(row, keepOnRelease) == NoRow

ReleaseRow(row, keepOnRelease) ==
    IF keepOnRelease THEN [row EXCEPT !.rvn = NULL] ELSE NoRow

(* UPDATE ... SET rvn = $3 WHERE name = $1 AND rvn = $2 *)
HeartbeatAffected(row, rvn) == row.exists /\ SqlEq(row.rvn, rvn)

(* the UPDATE of storeHeartbeat also clearing the data *)
HeartbeatRowClearsData(row, rvn) == [row EXCEPT !.rvn = rvn, !.data = ""]

HeartbeatRow(row, rvn) == [row EXCEPT !.rvn = rvn]

(* the SELECT of getLock with a condition that only a held row meets *)
getLockHeldOnly(name) ==
    IF table[name].exists /\ table[name].rvn # NULL
    THEN <<table[name].data, "ok">>
    ELSE <<"", ErrLockNotFound>>

(* SELECT "data" FROM <table> WHERE "name" = $1 FOR UPDATE *)
getLock(name) ==
    IF table[name].exists THEN <<table[name].data, "ok">>
    ELSE <<"", ErrLockNotFound>>

----------------------------------------------------------------------------
(* The lock handle *)

NoLock == [name |-> "a", recordVersionNumber |-> 0, data |-> "",
           isReleased |-> FALSE, failIfLocked |-> FALSE,
           keepOnRelease |-> FALSE, replaceData |-> FALSE,
           heartbeatFrequency |-> 0]

(* The options a call is made with: the defaults (wait for the lock, delete *)
(* the row on release, keep the stored data, heartbeat on), and every       *)
(* option set (FailIfLocked, KeepOnRelease, ReplaceData, WithData, and a    *)
(* client made WithHeartbeatFrequency(0))                                   *)
DefaultOptions ==
    [failIfLocked |-> FALSE, keepOnRelease |-> FALSE, replaceData |-> FALSE,
     data |-> "", heartbeatFrequency |-> 1]

AllOptions ==
    [failIfLocked |-> TRUE, keepOnRelease |-> TRUE, replaceData |-> TRUE,
     data |-> "P", heartbeatFrequency |-> 0]

LockOptions == {DefaultOptions, AllOptions}

newLock(name, opt) ==
    [name |-> name, recordVersionNumber |-> 0, data |-> opt.data,
     isReleased |-> FALSE, failIfLocked |-> opt.failIfLocked,
     keepOnRelease |-> opt.keepOnRelease, replaceData |-> opt.replaceData,
     heartbeatFrequency |-> opt.heartbeatFrequency]

(* the errors of database/sql and of the driver: none, sql.ErrNoRows, a    *)
(* *net.OpError, a *pq.Error with its SQLSTATE, any other error            *)
DriverErrors ==
    {[type |-> t, code |-> ""] : t \in {"nil", "sql.ErrNoRows", "net.OpError", "other"}}
    \cup {[type |-> "pq.Error", code |-> c] : c \in {"40001", "40P01", "23505", "57014"}}

NilError == [kind |-> "nil", cause |-> [type |-> "nil", code |-> ""]]

(* errors.E(kind, err, ...): an error of the kind, with err as its cause *)
E(kind, err) == [kind |-> kind, cause |-> err]

(* an error that typedError returns as it is: it has no kind *)
Raw(err) == [kind |-> "none", cause |-> err]

(* the sentinels of the package: errors.E without a kind, and              *)
(* ErrLockNotFound with errors.NotExist                                    *)
Sentinel(name) ==
    [kind |-> IF name = ErrLockNotFound THEN "NotExist" ELSE "none",
     cause |-> [type |-> name, code |-> ""]]

(* errors.Is(kind, err) *)
IsKind(kind, err) == err.kind = kind

(* typedError with every code of PostgreSQL taken for a serialization      *)
(* failure                                                                 *)
typedErrorAnyCode(err) ==
    IF err.type = "nil" THEN NilError
    ELSE IF err.type = "sql.ErrNoRows" THEN E("NotExist", err)
    ELSE IF err.type = "net.OpError" THEN E("Unavailable", err)
    ELSE IF err.type = "pq.Error" THEN E("FailedPrecondition", err)
    ELSE Raw(err)

(* typedError(err, v...) *)
typedError(err) ==
    IF err.type = "nil" THEN NilError
    ELSE IF err.type = "sql.ErrNoRows" THEN E("NotExist", err)
    ELSE IF err.type = "net.OpError" THEN E("Unavailable", err)
    ELSE IF err.type = "pq.Error" /\ err.code = "40001"
         THEN E("FailedPrecondition", err)
    ELSE Raw(err)

(* no call in Client.retry *)
NoCall == [op |-> "none", attempts |-> 0, driverErr |-> [type |-> "nil", code |-> ""],
           typed |-> NilError, last |-> NilError, status |-> "none",
           ret |-> NilError]

(* GetDataContext was not called *)
NoResult == [name |-> "", data |-> "", err |-> "none"]

(* no Client yet: New was not called *)
NoClient == [db |-> "none", leaseDuration |-> 0, heartbeatFrequency |-> 0,
             err |-> "none"]

MaxOf(S) == IF S = {} THEN 0 ELSE CHOOSE x \in S : \A y \in S : y <= x

----------------------------------------------------------------------------
Init ==
    /\ table = [n \in Names |-> NoRow]
    /\ seq = 0
    /\ lock = [h \in Handles |-> NoLock]
    /\ pc = [h \in Handles |-> "idle"]
    /\ ctxDone = [h \in Handles |-> FALSE]
    /\ txRvn = [h \in Handles |-> 0]
    /\ hb = [h \in Handles |-> "none"]
    /\ hbRvn = [h \in Handles |-> 0]
    /\ hbCtxDone = [h \in Handles |-> FALSE]
    /\ relResult = [h \in Handles |-> "none"]
    /\ installed = [n \in Names |-> {}]
    /\ learnt = [h \in Handles |-> FALSE]
    /\ hbErr = [h \in Handles |-> "none"]
    /\ firstRelease = [h \in Handles |-> "none"]
    /\ doErr = [h \in Handles |-> "none"]
    /\ fReturned = [h \in Handles |-> {}]
    /\ acquired = [h \in Handles |-> FALSE]
    /\ leaseDuration = 0
    /\ timer = 0
    /\ txAge = 0
    /\ sendAge = 0
    /\ sinceRefresh = 0
    /\ sleepLease = 0
    /\ slept = 0
    /\ client = NoClient
    /\ retryCall = NoCall
    /\ getResult = NoResult

----------------------------------------------------------------------------
(* Client.AcquireContext *)

(* default: retry -> tryAcquire -> storeAcquire: BeginTx and getNextRVN *)
StoreAcquireBegin(h) ==
    /\ seq' = getNextRVN(seq)
    /\ txRvn' = [txRvn EXCEPT ![h] = seq']
    /\ pc' = [pc EXCEPT ![h] = "tx"]

(* l := c.newLock(name, opts); the context is live at the select: the       *)
(* first attempt begins                                                     *)
AcquireContext(h, name, opt) ==
    /\ pc[h] = "idle"
    /\ \A g \in Handles : g < h => pc[g] # "idle"
    /\ seq < MaxSeq
    /\ lock' = [lock EXCEPT ![h] = newLock(name, opt)]
    /\ StoreAcquireBegin(h)
    /\ UNCHANGED <<table, ctxDone, hb, hbRvn, hbCtxDone, relResult, installed,
                   learnt>>
    /\ UNCHANGED <<hbErr, firstRelease, doVars, timeVars, callVars>>

(* the call is made with a context that is already cancelled:               *)
(* case <-ctx.Done(): return nil, ErrNotAcquired (the new handle is lost)   *)
AcquireContextCancelled(h) ==
    /\ pc[h] = "idle"
    /\ \A g \in Handles : g < h => pc[g] # "idle"
    /\ ctxDone' = [ctxDone EXCEPT ![h] = TRUE]
    /\ pc' = [pc EXCEPT ![h] = "cancelled"]
    /\ UNCHANGED <<table, seq, lock, txRvn, hb, hbRvn, hbCtxDone, relResult,
                   installed, learnt>>
    /\ UNCHANGED <<hbErr, firstRelease, doVars, timeVars, callVars>>

(* the loop without the case <-ctx.Done() *)
AcquireWakeIgnoresContext(h) ==
    /\ pc[h] = "sleep"
    /\ StoreAcquireBegin(h)
    /\ UNCHANGED <<table, lock, ctxDone, hb, hbRvn, hbCtxDone, relResult,
                   installed, learnt>>
    /\ UNCHANGED <<hbErr, firstRelease, doVars, timeVars, callVars>>

(* time.Sleep(l.leaseDuration) returns; continue; the context is live at    *)
(* the select: the next attempt begins                                      *)
AcquireWake(h) ==
    /\ pc[h] = "sleep"
    /\ ~ctxDone[h]
    /\ StoreAcquireBegin(h)
    /\ UNCHANGED <<table, lock, ctxDone, hb, hbRvn, hbCtxDone, relResult,
                   installed, learnt>>
    /\ UNCHANGED <<hbErr, firstRelease, doVars, timeVars, callVars>>

(* time.Sleep returns; continue; case <-ctx.Done(): return nil,             *)
(* ErrNotAcquired                                                           *)
AcquireWakeCancelled(h) ==
    /\ pc[h] = "sleep"
    /\ ctxDone[h]
    /\ pc' = [pc EXCEPT ![h] = "cancelled"]
    /\ lock' = [lock EXCEPT ![h] = NoLock]
    /\ UNCHANGED <<table, seq, ctxDone, txRvn, hb, hbRvn, hbCtxDone, relResult,
                   installed, learnt>>
    /\ UNCHANGED <<hbErr, firstRelease, doVars, timeVars, callVars>>

(* the row as the upsert of storeAcquire leaves it *)
AcquireRow(h) ==
    Upsert(table[lock[h].name], txRvn[h], lock[h].data,
           lock[h].recordVersionNumber, lock[h].replaceData)

(* actualRVN == rvn: commit, record the RVN and the data, start the heartbeat *)
StoreAcquireOk(h) ==
    /\ pc[h] = "tx"
    /\ ~ctxDone[h]
    /\ AcquireRow(h).rvn = txRvn[h]
    /\ table' = [table EXCEPT ![lock[h].name] = AcquireRow(h)]
    /\ lock' = [lock EXCEPT ![h].recordVersionNumber = txRvn[h],
                            ![h].data = AcquireRow(h).data]
    /\ installed' = [installed EXCEPT ![lock[h].name] = @ \cup {txRvn[h]}]
    /\ learnt' = [learnt EXCEPT ![h] = FALSE]
    /\ hb' = [hb EXCEPT ![h] =
                IF lock[h].heartbeatFrequency <= 0 THEN "stopped" ELSE "waiting"]
    /\ pc' = [pc EXCEPT ![h] = "held"]
    /\ txRvn' = [txRvn EXCEPT ![h] = 0]
    /\ UNCHANGED <<seq, ctxDone, hbRvn, hbCtxDone, relResult>>
    /\ UNCHANGED <<hbErr, firstRelease, doVars, timeVars, callVars>>

(* the mismatch branch returning nil for ErrNotAcquired *)
StoreAcquireNotAcquiredReturnsNil(h) ==
    /\ pc[h] = "tx"
    /\ ~ctxDone[h]
    /\ AcquireRow(h).rvn # txRvn[h]
    /\ lock' = [lock EXCEPT ![h].recordVersionNumber = AcquireRow(h).rvn]
    /\ learnt' = [learnt EXCEPT ![h] = TRUE]
    /\ pc' = [pc EXCEPT ![h] = "held"]
    /\ txRvn' = [txRvn EXCEPT ![h] = 0]
    /\ UNCHANGED <<table, seq, ctxDone, hb, hbRvn, hbCtxDone, relResult, installed>>
    /\ UNCHANGED <<hbErr, firstRelease, doVars, timeVars, callVars>>

(* the mismatch branch without l.recordVersionNumber = actualRVN *)
StoreAcquireNotAcquiredForgets(h) ==
    /\ pc[h] = "tx"
    /\ ~ctxDone[h]
    /\ AcquireRow(h).rvn # txRvn[h]
    /\ learnt' = [learnt EXCEPT ![h] = TRUE]
    /\ pc' = [pc EXCEPT ![h] = IF lock[h].failIfLocked THEN "failed" ELSE "sleep"]
    /\ txRvn' = [txRvn EXCEPT ![h] = 0]
    /\ UNCHANGED <<table, seq, lock, ctxDone, hb, hbRvn, hbCtxDone, relResult,
                   installed>>
    /\ UNCHANGED <<hbErr, firstRelease, doVars, timeVars, callVars>>

(* the mismatch branch sleeping whatever failIfLocked says *)
StoreAcquireNotAcquiredAlwaysWaits(h) ==
    /\ pc[h] = "tx"
    /\ ~ctxDone[h]
    /\ AcquireRow(h).rvn # txRvn[h]
    /\ lock' = [lock EXCEPT ![h].recordVersionNumber = AcquireRow(h).rvn]
    /\ learnt' = [learnt EXCEPT ![h] = TRUE]
    /\ pc' = [pc EXCEPT ![h] = "sleep"]
    /\ txRvn' = [txRvn EXCEPT ![h] = 0]
    /\ UNCHANGED <<table, seq, ctxDone, hb, hbRvn, hbCtxDone, relResult, installed>>
    /\ UNCHANGED <<hbErr, firstRelease, doVars, timeVars, callVars>>

(* actualRVN != rvn: store the observed RVN, return ErrNotAcquired; the       *)
(* transaction is rolled back by the deferred cancel                          *)
StoreAcquireNotAcquired(h) ==
    /\ pc[h] = "tx"
    /\ ~ctxDone[h]
    /\ AcquireRow(h).rvn # txRvn[h]
    /\ lock' = [lock EXCEPT ![h].recordVersionNumber = AcquireRow(h).rvn]
    /\ learnt' = [learnt EXCEPT ![h] = TRUE]
    /\ pc' = [pc EXCEPT ![h] = IF lock[h].failIfLocked THEN "failed" ELSE "sleep"]
    /\ txRvn' = [txRvn EXCEPT ![h] = 0]
    /\ UNCHANGED <<table, seq, ctxDone, hb, hbRvn, hbCtxDone, relResult, installed>>
    /\ UNCHANGED <<hbErr, firstRelease, doVars, timeVars, callVars>>

(* SQLSTATE 40001: typedError gives FailedPrecondition, retry calls           *)
(* tryAcquire again, which begins a transaction and draws a new RVN           *)
StoreAcquireRetry(h) ==
    /\ pc[h] = "tx"
    /\ ~ctxDone[h]
    /\ seq < MaxSeq
    /\ StoreAcquireBegin(h)
    /\ UNCHANGED <<table, lock, ctxDone, hb, hbRvn, hbCtxDone, relResult,
                   installed, learnt>>
    /\ UNCHANGED <<hbErr, firstRelease, doVars, timeVars, callVars>>

(* any other error of the database (a cancelled context, the network):        *)
(* return nil, err                                                            *)
StoreAcquireError(h) ==
    /\ pc[h] = "tx"
    /\ pc' = [pc EXCEPT ![h] = "error"]
    /\ txRvn' = [txRvn EXCEPT ![h] = 0]
    /\ lock' = [lock EXCEPT ![h] = NoLock]
    /\ learnt' = [learnt EXCEPT ![h] = FALSE]
    /\ UNCHANGED <<table, seq, ctxDone, hb, hbRvn, hbCtxDone, relResult, installed>>
    /\ UNCHANGED <<hbErr, firstRelease, doVars, timeVars, callVars>>

(* the caller cancels the context it gave to AcquireContext while the call *)
(* is running                                                              *)
CancelContext(h) ==
    /\ pc[h] \in {"tx", "sleep"}
    /\ ~ctxDone[h]
    /\ ctxDone' = [ctxDone EXCEPT ![h] = TRUE]
    /\ UNCHANGED <<table, seq, lock, pc, txRvn, hb, hbRvn, hbCtxDone, relResult,
                   installed, learnt>>
    /\ UNCHANGED <<hbErr, firstRelease, doVars, timeVars, callVars>>

(* the caller cancels it after the call returned the lock: the context of  *)
(* the heartbeat goroutine is its child (context.WithCancel(ctx))          *)
CancelHeartbeatContext(h) ==
    /\ hb[h] \in {"waiting", "tx"}
    /\ ~hbCtxDone[h]
    /\ hbCtxDone' = [hbCtxDone EXCEPT ![h] = TRUE]
    /\ UNCHANGED <<table, seq, lock, pc, ctxDone, txRvn, hb, hbRvn, relResult,
                   installed, learnt>>
    /\ UNCHANGED <<hbErr, firstRelease, doVars, timeVars, callVars>>

----------------------------------------------------------------------------
(* Client.heartbeat, Client.SendHeartbeat, Client.storeHeartbeat.  The      *)
(* goroutine holds l.mu from the begin of storeHeartbeat to its return.     *)

(* case <-ctx.Done(): return *)
HeartbeatStop(h) ==
    /\ hb[h] = "waiting"
    /\ hbCtxDone[h]
    /\ hb' = [hb EXCEPT ![h] = "stopped"]
    /\ UNCHANGED <<table, seq, lock, pc, ctxDone, txRvn, hbRvn, hbCtxDone,
                   relResult, installed, learnt>>
    /\ UNCHANGED <<hbErr, firstRelease, doVars, timeVars, callVars>>

(* case <-time.After(c.heartbeatFrequency): l.mu.Lock, BeginTx, getNextRVN *)
StoreHeartbeatBegin(h) ==
    /\ hb[h] = "waiting"
    /\ ~hbCtxDone[h]
    /\ seq < MaxSeq
    /\ seq' = getNextRVN(seq)
    /\ hbRvn' = [hbRvn EXCEPT ![h] = seq']
    /\ hb' = [hb EXCEPT ![h] = "tx"]
    /\ UNCHANGED <<table, lock, pc, ctxDone, txRvn, hbCtxDone, relResult,
                   installed, learnt>>
    /\ UNCHANGED <<hbErr, firstRelease, doVars, timeVars, callVars>>

(* one row affected: commit, l.recordVersionNumber = rvn *)
StoreHeartbeatOk(h) ==
    /\ hb[h] = "tx"
    /\ ~hbCtxDone[h]
    /\ HeartbeatAffected(table[lock[h].name], lock[h].recordVersionNumber)
    /\ table' = [table EXCEPT ![lock[h].name] = HeartbeatRow(@, hbRvn[h])]
    /\ lock' = [lock EXCEPT ![h].recordVersionNumber = hbRvn[h]]
    /\ installed' = [installed EXCEPT ![lock[h].name] = @ \cup {hbRvn[h]}]
    /\ hb' = [hb EXCEPT ![h] = "waiting"]
    /\ hbRvn' = [hbRvn EXCEPT ![h] = 0]
    /\ UNCHANGED <<seq, pc, ctxDone, txRvn, hbCtxDone, relResult, learnt>>
    /\ hbErr' = [hbErr EXCEPT ![h] = "ok"]
    /\ UNCHANGED <<firstRelease, doVars, timeVars, callVars>>

(* no row affected taken for a success: the goroutine goes on *)
StoreHeartbeatLostGoesOn(h) ==
    /\ hb[h] = "tx"
    /\ ~hbCtxDone[h]
    /\ ~HeartbeatAffected(table[lock[h].name], lock[h].recordVersionNumber)
    /\ hb' = [hb EXCEPT ![h] = "waiting"]
    /\ hbRvn' = [hbRvn EXCEPT ![h] = 0]
    /\ hbErr' = [hbErr EXCEPT ![h] = "ok"]
    /\ UNCHANGED <<table, seq, lock, pc, ctxDone, txRvn, hbCtxDone, relResult,
                   installed, learnt>>
    /\ UNCHANGED <<firstRelease, doVars, timeVars, callVars>>

(* no row affected: l.isReleased = true, ErrLockAlreadyReleased, the         *)
(* goroutine returns                                                        *)
StoreHeartbeatLost(h) ==
    /\ hb[h] = "tx"
    /\ ~hbCtxDone[h]
    /\ ~HeartbeatAffected(table[lock[h].name], lock[h].recordVersionNumber)
    /\ lock' = [lock EXCEPT ![h].isReleased = TRUE]
    /\ hb' = [hb EXCEPT ![h] = "stopped"]
    /\ hbRvn' = [hbRvn EXCEPT ![h] = 0]
    /\ UNCHANGED <<table, seq, pc, ctxDone, txRvn, hbCtxDone, relResult, installed,
                   learnt>>
    /\ hbErr' = [hbErr EXCEPT ![h] = ErrLockAlreadyReleased]
    /\ UNCHANGED <<firstRelease, doVars, timeVars, callVars>>

(* SQLSTATE 40001: retry calls storeHeartbeat again *)
StoreHeartbeatRetry(h) ==
    /\ hb[h] = "tx"
    /\ ~hbCtxDone[h]
    /\ seq < MaxSeq
    /\ seq' = getNextRVN(seq)
    /\ hbRvn' = [hbRvn EXCEPT ![h] = seq']
    /\ UNCHANGED <<table, lock, pc, ctxDone, txRvn, hb, hbCtxDone, relResult,
                   installed, learnt>>
    /\ UNCHANGED <<hbErr, firstRelease, doVars, timeVars, callVars>>

(* any other error: "heartbeat missed", the goroutine returns *)
StoreHeartbeatError(h) ==
    /\ hb[h] = "tx"
    /\ hb' = [hb EXCEPT ![h] = "stopped"]
    /\ hbRvn' = [hbRvn EXCEPT ![h] = 0]
    /\ UNCHANGED <<table, seq, lock, pc, ctxDone, txRvn, hbCtxDone, relResult,
                   installed, learnt>>
    /\ hbErr' = [hbErr EXCEPT ![h] = ErrOther]
    /\ UNCHANGED <<firstRelease, doVars, timeVars, callVars>>

----------------------------------------------------------------------------
(* Client.ReleaseContext, Client.storeRelease.  The caller holds the handle *)
(* that AcquireContext returned: with a nil error, or together with         *)
(* ErrNotAcquired when failIfLocked is set.  storeRelease takes l.mu, so it *)
(* runs only while no storeHeartbeat of the handle is in flight.            *)

CanRelease(h) == pc[h] \in {"held", "failed"} /\ hb[h] # "tx"

(* ReleaseContext without the test of l.IsReleased(): the row is freed again *)
ReleaseAlreadyReleasedFreesRow(h) ==
    /\ CanRelease(h)
    /\ lock[h].isReleased
    /\ table' = [table EXCEPT ![lock[h].name] = NoRow]
    /\ relResult' = [relResult EXCEPT ![h] = "ok"]
    /\ UNCHANGED <<seq, lock, pc, ctxDone, txRvn, hb, hbRvn, hbCtxDone,
                   installed, learnt>>
    /\ UNCHANGED <<hbErr, firstRelease, doVars, timeVars, callVars>>

(* if l.IsReleased() { return ErrLockAlreadyReleased } *)
ReleaseAlreadyReleased(h) ==
    /\ CanRelease(h)
    /\ lock[h].isReleased
    /\ relResult' = [relResult EXCEPT ![h] = ErrLockAlreadyReleased]
    /\ UNCHANGED <<table, seq, lock, pc, ctxDone, txRvn, hb, hbRvn, hbCtxDone,
                   installed, learnt>>
    /\ UNCHANGED <<hbErr, firstRelease, doVars, timeVars, callVars>>

(* one row affected: the DELETE unless keepOnRelease, commit,               *)
(* l.isReleased = true, l.heartbeatCancel()                                 *)
StoreReleaseOk(h) ==
    /\ CanRelease(h)
    /\ ~lock[h].isReleased
    /\ ReleaseAffected(table[lock[h].name], lock[h].recordVersionNumber)
    /\ table' = [table EXCEPT ![lock[h].name] = ReleaseRow(@, lock[h].keepOnRelease)]
    /\ lock' = [lock EXCEPT ![h].isReleased = TRUE]
    /\ hbCtxDone' = [hbCtxDone EXCEPT ![h] = TRUE]
    /\ relResult' = [relResult EXCEPT ![h] = "ok"]
    /\ UNCHANGED <<seq, pc, ctxDone, txRvn, hb, hbRvn, installed, learnt>>
    /\ firstRelease' = [firstRelease EXCEPT ![h] = "ok"]
    /\ UNCHANGED <<hbErr, doVars, timeVars, callVars>>

(* no row affected: l.isReleased = true, l.heartbeatCancel(),               *)
(* ErrLockAlreadyReleased                                                   *)
StoreReleaseLost(h) ==
    /\ CanRelease(h)
    /\ ~lock[h].isReleased
    /\ ~ReleaseAffected(table[lock[h].name], lock[h].recordVersionNumber)
    /\ lock' = [lock EXCEPT ![h].isReleased = TRUE]
    /\ hbCtxDone' = [hbCtxDone EXCEPT ![h] = TRUE]
    /\ relResult' = [relResult EXCEPT ![h] = ErrLockAlreadyReleased]
    /\ UNCHANGED <<table, seq, pc, ctxDone, txRvn, hb, hbRvn, installed, learnt>>
    /\ firstRelease' = [firstRelease EXCEPT ![h] = ErrLockAlreadyReleased]
    /\ UNCHANGED <<hbErr, doVars, timeVars, callVars>>

(* SQLSTATE 40001: retry calls storeRelease again; nothing was committed *)
StoreReleaseRetry(h) ==
    /\ CanRelease(h)
    /\ ~lock[h].isReleased
    /\ UNCHANGED vars

(* any other error is returned; nothing was committed *)
StoreReleaseError(h) ==
    /\ CanRelease(h)
    /\ ~lock[h].isReleased
    /\ relResult' = [relResult EXCEPT ![h] = ErrOther]
    /\ UNCHANGED <<table, seq, lock, pc, ctxDone, txRvn, hb, hbRvn, hbCtxDone,
                   installed, learnt>>
    /\ UNCHANGED <<hbErr, firstRelease, doVars, timeVars, callVars>>

----------------------------------------------------------------------------
(* Client.Do, Client.do.  The position of a Do call: "dtx" (the            *)
(* storeAcquire of do is in flight), "dsleep" (time.Sleep in the loop),    *)
(* "f" (f runs), "fwait" (f blocks on the Done channel of its context),    *)
(* "closing" (Do has its result and the deferred l.Close() runs),          *)
(* "returned".  hbCtxDone is the context that do derives: the context of   *)
(* the heartbeat goroutine and of f.                                       *)

(* the values f returns *)
FErrors == {"nil", ErrOther, ErrNotAcquired, FailedPrecondition}

(* l := c.newLock(name, opts); defer l.Close(); the context is live at the *)
(* select: retry -> do -> storeAcquire begins                              *)
Do(h, name, opt) ==
    /\ pc[h] = "idle"
    /\ \A g \in Handles : g < h => pc[g] # "idle"
    /\ seq < MaxSeq
    /\ lock' = [lock EXCEPT ![h] = newLock(name, opt)]
    /\ seq' = getNextRVN(seq)
    /\ txRvn' = [txRvn EXCEPT ![h] = seq']
    /\ pc' = [pc EXCEPT ![h] = "dtx"]
    /\ UNCHANGED <<table, ctxDone, hb, hbRvn, hbCtxDone, relResult, installed,
                   learnt, hbErr, firstRelease, doVars, timeVars, callVars>>

(* Do is called with a context that is already cancelled:                  *)
(* case <-ctx.Done(): return ErrNotAcquired                                *)
DoContextCancelled(h) ==
    /\ pc[h] = "idle"
    /\ \A g \in Handles : g < h => pc[g] # "idle"
    /\ lock' = [lock EXCEPT ![h] = newLock("a", DefaultOptions)]
    /\ ctxDone' = [ctxDone EXCEPT ![h] = TRUE]
    /\ doErr' = [doErr EXCEPT ![h] = ErrNotAcquired]
    /\ pc' = [pc EXCEPT ![h] = "closing"]
    /\ UNCHANGED <<table, seq, txRvn, hb, hbRvn, hbCtxDone, relResult,
                   installed, learnt, hbErr, firstRelease, fReturned, acquired,
                   timeVars, callVars>>

(* the mismatch branch of storeAcquire taken for a success: f is called *)
DoStoreAcquireNotAcquiredCallsF(h) ==
    /\ pc[h] = "dtx"
    /\ ~ctxDone[h]
    /\ AcquireRow(h).rvn # txRvn[h]
    /\ lock' = [lock EXCEPT ![h].recordVersionNumber = AcquireRow(h).rvn]
    /\ learnt' = [learnt EXCEPT ![h] = TRUE]
    /\ pc' = [pc EXCEPT ![h] = "f"]
    /\ txRvn' = [txRvn EXCEPT ![h] = 0]
    /\ UNCHANGED <<table, seq, ctxDone, hb, hbRvn, hbCtxDone, relResult,
                   installed, hbErr, firstRelease, doVars, timeVars, callVars>>

(* do: storeAcquire committed; the context is derived, the goroutine of    *)
(* the heartbeat is started (it returns at once when heartbeats are off)   *)
(* and f is called.  The goroutine of an earlier do of this call, whose    *)
(* context was cancelled when that do returned, has returned.              *)
DoStoreAcquireOk(h) ==
    /\ pc[h] = "dtx"
    /\ ~ctxDone[h]
    /\ hb[h] \in {"none", "stopped"}
    /\ AcquireRow(h).rvn = txRvn[h]
    /\ table' = [table EXCEPT ![lock[h].name] = AcquireRow(h)]
    /\ lock' = [lock EXCEPT ![h].recordVersionNumber = txRvn[h],
                            ![h].data = AcquireRow(h).data]
    /\ installed' = [installed EXCEPT ![lock[h].name] = @ \cup {txRvn[h]}]
    /\ learnt' = [learnt EXCEPT ![h] = FALSE]
    /\ acquired' = [acquired EXCEPT ![h] = TRUE]
    /\ hbCtxDone' = [hbCtxDone EXCEPT ![h] = FALSE]
    /\ hb' = [hb EXCEPT ![h] =
                IF lock[h].heartbeatFrequency <= 0 THEN "stopped" ELSE "waiting"]
    /\ pc' = [pc EXCEPT ![h] = "f"]
    /\ txRvn' = [txRvn EXCEPT ![h] = 0]
    /\ UNCHANGED <<seq, ctxDone, hbRvn, relResult, hbErr, firstRelease, doErr,
                   fReturned, timeVars, callVars>>

(* do returns the ErrNotAcquired of storeAcquire, the handle has the RVN   *)
(* of the row: Do returns it with failIfLocked and sleeps otherwise        *)
DoStoreAcquireNotAcquired(h) ==
    /\ pc[h] = "dtx"
    /\ ~ctxDone[h]
    /\ AcquireRow(h).rvn # txRvn[h]
    /\ lock' = [lock EXCEPT ![h].recordVersionNumber = AcquireRow(h).rvn]
    /\ learnt' = [learnt EXCEPT ![h] = TRUE]
    /\ doErr' = [doErr EXCEPT ![h] = ErrNotAcquired]
    /\ pc' = [pc EXCEPT ![h] = IF lock[h].failIfLocked THEN "closing" ELSE "dsleep"]
    /\ txRvn' = [txRvn EXCEPT ![h] = 0]
    /\ UNCHANGED <<table, seq, ctxDone, hb, hbRvn, hbCtxDone, relResult,
                   installed, hbErr, firstRelease, fReturned, acquired,
                   timeVars, callVars>>

(* SQLSTATE 40001: retry calls do again *)
DoStoreAcquireRetry(h) ==
    /\ pc[h] = "dtx"
    /\ ~ctxDone[h]
    /\ seq < MaxSeq
    /\ seq' = getNextRVN(seq)
    /\ txRvn' = [txRvn EXCEPT ![h] = seq']
    /\ UNCHANGED <<table, lock, pc, ctxDone, hb, hbRvn, hbCtxDone, relResult,
                   installed, learnt, hbErr, firstRelease, doVars, timeVars,
                   callVars>>

(* any other error of storeAcquire: Do returns it *)
DoStoreAcquireError(h) ==
    /\ pc[h] = "dtx"
    /\ doErr' = [doErr EXCEPT ![h] = ErrOther]
    /\ pc' = [pc EXCEPT ![h] = "closing"]
    /\ txRvn' = [txRvn EXCEPT ![h] = 0]
    /\ UNCHANGED <<table, seq, lock, ctxDone, hb, hbRvn, hbCtxDone, relResult,
                   installed, learnt, hbErr, firstRelease, fReturned, acquired,
                   timeVars, callVars>>

(* after time.Sleep(l.leaseDuration) the context is live at the select:    *)
(* do is called again                                                      *)
DoWake(h) ==
    /\ pc[h] = "dsleep"
    /\ ~ctxDone[h]
    /\ seq' = getNextRVN(seq)
    /\ txRvn' = [txRvn EXCEPT ![h] = seq']
    /\ pc' = [pc EXCEPT ![h] = "dtx"]
    /\ UNCHANGED <<table, lock, ctxDone, hb, hbRvn, hbCtxDone, relResult,
                   installed, learnt, hbErr, firstRelease, doVars, timeVars,
                   callVars>>

(* after the sleep: case <-ctx.Done(): return ErrNotAcquired *)
DoWakeCancelled(h) ==
    /\ pc[h] = "dsleep"
    /\ ctxDone[h]
    /\ doErr' = [doErr EXCEPT ![h] = ErrNotAcquired]
    /\ pc' = [pc EXCEPT ![h] = "closing"]
    /\ UNCHANGED <<table, seq, lock, ctxDone, txRvn, hb, hbRvn, hbCtxDone,
                   relResult, installed, learnt, hbErr, firstRelease, fReturned,
                   acquired, timeVars, callVars>>

(* the caller of Do cancels its context; the context that do derived from  *)
(* it is cancelled with it                                                 *)
DoCancelContext(h) ==
    /\ pc[h] \in {"dtx", "dsleep", "f", "fwait"}
    /\ ~ctxDone[h]
    /\ ctxDone' = [ctxDone EXCEPT ![h] = TRUE]
    /\ hbCtxDone' = [hbCtxDone EXCEPT ![h] = @ \/ pc[h] \in {"f", "fwait"}]
    /\ UNCHANGED <<table, seq, lock, pc, txRvn, hb, hbRvn, relResult,
                   installed, learnt, hbErr, firstRelease, doVars, timeVars,
                   callVars>>

(* the goroutine that do started returns without cancelling the context *)
DoHeartbeatExitKeepsContext(h) ==
    /\ pc[h] \in {"f", "fwait"}
    /\ hb[h] = "stopped"
    /\ ~hbCtxDone[h]
    /\ UNCHANGED vars

(* go func() { defer cancel(); c.heartbeat(ctx, l) }(): heartbeat has      *)
(* returned, the deferred cancel runs                                      *)
DoHeartbeatExit(h) ==
    /\ pc[h] \in {"f", "fwait"}
    /\ hb[h] = "stopped"
    /\ ~hbCtxDone[h]
    /\ hbCtxDone' = [hbCtxDone EXCEPT ![h] = TRUE]
    /\ UNCHANGED <<table, seq, lock, pc, ctxDone, txRvn, hb, hbRvn, relResult,
                   installed, learnt, hbErr, firstRelease, doVars, timeVars,
                   callVars>>

(* f calls c.Release(l) on the handle it was given and drops the result:   *)
(* storeRelease deletes or clears the row if it still has the RVN of the   *)
(* handle, sets l.isReleased and calls l.heartbeatCancel, the cancel of    *)
(* the context of f.  On a released handle and on an error of the          *)
(* database the call changes nothing.                                      *)
FRelease(h) ==
    /\ pc[h] = "f"
    /\ hb[h] # "tx"
    /\ ~lock[h].isReleased
    /\ table' = [table EXCEPT ![lock[h].name] =
                   IF ReleaseAffected(@, lock[h].recordVersionNumber)
                   THEN ReleaseRow(@, lock[h].keepOnRelease) ELSE @]
    /\ lock' = [lock EXCEPT ![h].isReleased = TRUE]
    /\ hbCtxDone' = [hbCtxDone EXCEPT ![h] = TRUE]
    /\ firstRelease' = [firstRelease EXCEPT ![h] =
                          IF ReleaseAffected(table[lock[h].name],
                                             lock[h].recordVersionNumber)
                          THEN "ok" ELSE ErrLockAlreadyReleased]
    /\ UNCHANGED <<seq, pc, ctxDone, txRvn, hb, hbRvn, relResult, installed,
                   learnt, hbErr, doVars, timeVars, callVars>>

(* f blocks until its context is done *)
FWait(h) ==
    /\ pc[h] = "f"
    /\ pc' = [pc EXCEPT ![h] = "fwait"]
    /\ UNCHANGED <<table, seq, lock, ctxDone, txRvn, hb, hbRvn, hbCtxDone,
                   relResult, installed, learnt, hbErr, firstRelease, doVars,
                   timeVars, callVars>>

(* return f(ctx, l): f returns e (a blocked f only once its context is     *)
(* done) and the deferred cancel of do runs.  retry calls do again when e  *)
(* is a FailedPrecondition; Do sleeps when e is ErrNotAcquired and         *)
(* failIfLocked is not set; otherwise Do returns e.  f returns a value     *)
(* that makes Do go on only while the sequence is below MaxSeq.            *)
FReturn(h, e) ==
    /\ pc[h] = "f" \/ (pc[h] = "fwait" /\ hbCtxDone[h])
    /\ fReturned' = [fReturned EXCEPT ![h] = @ \cup {e}]
    /\ doErr' = [doErr EXCEPT ![h] = e]
    /\ hbCtxDone' = [hbCtxDone EXCEPT ![h] = TRUE]
    /\ IF e = FailedPrecondition
       THEN /\ seq < MaxSeq
            /\ seq' = getNextRVN(seq)
            /\ txRvn' = [txRvn EXCEPT ![h] = seq']
            /\ pc' = [pc EXCEPT ![h] = "dtx"]
       ELSE IF e = ErrNotAcquired /\ ~lock[h].failIfLocked
       THEN /\ seq < MaxSeq
            /\ pc' = [pc EXCEPT ![h] = "dsleep"]
            /\ UNCHANGED <<seq, txRvn>>
       ELSE /\ pc' = [pc EXCEPT ![h] = "closing"]
            /\ UNCHANGED <<seq, txRvn>>
    /\ UNCHANGED <<table, lock, ctxDone, hb, hbRvn, relResult, installed,
                   learnt, hbErr, firstRelease, acquired, timeVars, callVars>>

(* defer l.Close(): Release(l) with context.Background().                  *)
(* l.IsReleased(): ErrLockAlreadyReleased, no statement is sent            *)
DoCloseAlreadyReleased(h) ==
    /\ pc[h] = "closing"
    /\ hb[h] # "tx"
    /\ lock[h].isReleased
    /\ relResult' = [relResult EXCEPT ![h] = ErrLockAlreadyReleased]
    /\ pc' = [pc EXCEPT ![h] = "returned"]
    /\ UNCHANGED <<table, seq, lock, ctxDone, txRvn, hb, hbRvn, hbCtxDone,
                   installed, learnt, hbErr, firstRelease, doVars, timeVars,
                   callVars>>

(* storeRelease: one row affected *)
DoCloseOk(h) ==
    /\ pc[h] = "closing"
    /\ hb[h] # "tx"
    /\ ~lock[h].isReleased
    /\ ReleaseAffected(table[lock[h].name], lock[h].recordVersionNumber)
    /\ table' = [table EXCEPT ![lock[h].name] = ReleaseRow(@, lock[h].keepOnRelease)]
    /\ lock' = [lock EXCEPT ![h].isReleased = TRUE]
    /\ hbCtxDone' = [hbCtxDone EXCEPT ![h] = TRUE]
    /\ relResult' = [relResult EXCEPT ![h] = "ok"]
    /\ firstRelease' = [firstRelease EXCEPT ![h] = "ok"]
    /\ pc' = [pc EXCEPT ![h] = "returned"]
    /\ UNCHANGED <<seq, ctxDone, txRvn, hb, hbRvn, installed, learnt, hbErr,
                   doVars, timeVars, callVars>>

(* storeRelease: no row affected *)
DoCloseLost(h) ==
    /\ pc[h] = "closing"
    /\ hb[h] # "tx"
    /\ ~lock[h].isReleased
    /\ ~ReleaseAffected(table[lock[h].name], lock[h].recordVersionNumber)
    /\ lock' = [lock EXCEPT ![h].isReleased = TRUE]
    /\ hbCtxDone' = [hbCtxDone EXCEPT ![h] = TRUE]
    /\ relResult' = [relResult EXCEPT ![h] = ErrLockAlreadyReleased]
    /\ firstRelease' = [firstRelease EXCEPT ![h] = ErrLockAlreadyReleased]
    /\ pc' = [pc EXCEPT ![h] = "returned"]
    /\ UNCHANGED <<table, seq, ctxDone, txRvn, hb, hbRvn, installed, learnt,
                   hbErr, doVars, timeVars, callVars>>

(* storeRelease: SQLSTATE 40001, retry calls it again *)
DoCloseRetry(h) ==
    /\ pc[h] = "closing"
    /\ hb[h] # "tx"
    /\ ~lock[h].isReleased
    /\ UNCHANGED vars

(* storeRelease: any other error; Close returns it and Do drops it *)
DoCloseError(h) ==
    /\ pc[h] = "closing"
    /\ hb[h] # "tx"
    /\ ~lock[h].isReleased
    /\ relResult' = [relResult EXCEPT ![h] = ErrOther]
    /\ pc' = [pc EXCEPT ![h] = "returned"]
    /\ UNCHANGED <<table, seq, lock, ctxDone, txRvn, hb, hbRvn, hbCtxDone,
                   installed, learnt, hbErr, firstRelease, doVars, timeVars,
                   callVars>>

----------------------------------------------------------------------------
(* The process that holds the lock dies: its handle and its heartbeat      *)
(* goroutine are gone, the row stays as it is                              *)
Crash(h) ==
    /\ pc[h] = "held"
    /\ ~lock[h].isReleased
    /\ pc' = [pc EXCEPT ![h] = "crashed"]
    /\ lock' = [lock EXCEPT ![h] = NoLock]
    /\ hb' = [hb EXCEPT ![h] = "none"]
    /\ hbRvn' = [hbRvn EXCEPT ![h] = 0]
    /\ hbCtxDone' = [hbCtxDone EXCEPT ![h] = FALSE]
    /\ relResult' = [relResult EXCEPT ![h] = "none"]
    /\ ctxDone' = [ctxDone EXCEPT ![h] = FALSE]
    /\ UNCHANGED <<table, seq, txRvn, installed, learnt>>
    /\ hbErr' = [hbErr EXCEPT ![h] = "none"]
    /\ firstRelease' = [firstRelease EXCEPT ![h] = "none"]
    /\ UNCHANGED <<doVars, timeVars, callVars>>

----------------------------------------------------------------------------
Next ==
    \/ \E h \in Handles, n \in Names, o \in LockOptions :
          /\ (\A g \in Handles : pc[g] = "idle") => n = "a"
          /\ AcquireContext(h, n, o)
    \/ \E h \in Handles : AcquireContextCancelled(h)
    \/ \E h \in Handles : StoreAcquireOk(h)
    \/ \E h \in Handles : StoreAcquireNotAcquired(h)
    \/ \E h \in Handles : StoreAcquireRetry(h)
    \/ \E h \in Handles : StoreAcquireError(h)
    \/ \E h \in Handles : AcquireWake(h)
    \/ \E h \in Handles : AcquireWakeCancelled(h)
    \/ \E h \in Handles : CancelContext(h)
    \/ \E h \in Handles : CancelHeartbeatContext(h)
    \/ \E h \in Handles : HeartbeatStop(h)
    \/ \E h \in Handles : StoreHeartbeatBegin(h)
    \/ \E h \in Handles : StoreHeartbeatOk(h)
    \/ \E h \in Handles : StoreHeartbeatLost(h)
    \/ \E h \in Handles : StoreHeartbeatRetry(h)
    \/ \E h \in Handles : StoreHeartbeatError(h)
    \/ \E h \in Handles : ReleaseAlreadyReleased(h)
    \/ \E h \in Handles : StoreReleaseOk(h)
    \/ \E h \in Handles : StoreReleaseLost(h)
    \/ \E h \in Handles : StoreReleaseRetry(h)
    \/ \E h \in Handles : StoreReleaseError(h)
    \/ \E h \in Handles : Crash(h)

Spec == Init /\ [][Next]_vars

(* A holder and a single contender: the same steps, taken by two handles. *)
LiveHandles == {1, 2}

LiveNext ==
    \/ \E h \in LiveHandles, n \in Names, o \in LockOptions :
          /\ (\A g \in Handles : pc[g] = "idle") => n = "a"
          /\ AcquireContext(h, n, o)
    \/ \E h \in LiveHandles : AcquireContextCancelled(h)
    \/ \E h \in LiveHandles : StoreAcquireOk(h)
    \/ \E h \in LiveHandles : StoreAcquireNotAcquired(h)
    \/ \E h \in LiveHandles : StoreAcquireRetry(h)
    \/ \E h \in LiveHandles : StoreAcquireError(h)
    \/ \E h \in LiveHandles : AcquireWake(h)
    \/ \E h \in LiveHandles : AcquireWakeCancelled(h)
    \/ \E h \in LiveHandles : CancelContext(h)
    \/ \E h \in LiveHandles : CancelHeartbeatContext(h)
    \/ \E h \in LiveHandles : HeartbeatStop(h)
    \/ \E h \in LiveHandles : StoreHeartbeatBegin(h)
    \/ \E h \in LiveHandles : StoreHeartbeatOk(h)
    \/ \E h \in LiveHandles : StoreHeartbeatLost(h)
    \/ \E h \in LiveHandles : StoreHeartbeatRetry(h)
    \/ \E h \in LiveHandles : StoreHeartbeatError(h)
    \/ \E h \in LiveHandles : ReleaseAlreadyReleased(h)
    \/ \E h \in LiveHandles : StoreReleaseOk(h)
    \/ \E h \in LiveHandles : StoreReleaseLost(h)
    \/ \E h \in LiveHandles : StoreReleaseRetry(h)
    \/ \E h \in LiveHandles : StoreReleaseError(h)
    \/ \E h \in LiveHandles : Crash(h)

(* The scheduling of a waiting call: the timer of its select fires        *)
(* (time.After) and the database answers the transaction it was sent.     *)
AcquireFairness ==
    \A h \in LiveHandles :
        /\ WF_vars(AcquireWake(h))
        /\ WF_vars(StoreAcquireOk(h) \/ StoreAcquireNotAcquired(h))

LiveSpec == Init /\ [][LiveNext]_vars /\ AcquireFairness

(* The calls of two clients with every combination of WithData,            *)
(* ReplaceData and KeepOnRelease *)
DataOptions ==
    {[failIfLocked |-> FALSE, keepOnRelease |-> k, replaceData |-> r,
      data |-> d, heartbeatFrequency |-> 1] : k, r \in BOOLEAN, d \in Data}

DataNext ==
    \/ \E h \in LiveHandles, n \in Names, o \in DataOptions :
          /\ (\A g \in Handles : pc[g] = "idle") => n = "a"
          /\ AcquireContext(h, n, o)
    \/ \E h \in LiveHandles : AcquireContextCancelled(h)
    \/ \E h \in LiveHandles : StoreAcquireOk(h)
    \/ \E h \in LiveHandles : StoreAcquireNotAcquired(h)
    \/ \E h \in LiveHandles : StoreAcquireRetry(h)
    \/ \E h \in LiveHandles : StoreAcquireError(h)
    \/ \E h \in LiveHandles : AcquireWake(h)
    \/ \E h \in LiveHandles : AcquireWakeCancelled(h)
    \/ \E h \in LiveHandles : CancelContext(h)
    \/ \E h \in LiveHandles : CancelHeartbeatContext(h)
    \/ \E h \in LiveHandles : HeartbeatStop(h)
    \/ \E h \in LiveHandles : StoreHeartbeatBegin(h)
    \/ \E h \in LiveHandles : StoreHeartbeatOk(h)
    \/ \E h \in LiveHandles : StoreHeartbeatLost(h)
    \/ \E h \in LiveHandles : StoreHeartbeatRetry(h)
    \/ \E h \in LiveHandles : StoreHeartbeatError(h)
    \/ \E h \in LiveHandles : ReleaseAlreadyReleased(h)
    \/ \E h \in LiveHandles : StoreReleaseOk(h)
    \/ \E h \in LiveHandles : StoreReleaseLost(h)
    \/ \E h \in LiveHandles : StoreReleaseRetry(h)
    \/ \E h \in LiveHandles : StoreReleaseError(h)
    \/ \E h \in LiveHandles : Crash(h)

DataSpec == Init /\ [][DataNext]_vars

(* Two clients that call Do for the same lock; the f of each may release  *)
(* its handle                                                             *)
DoNext ==
    \/ \E h \in LiveHandles : HeartbeatStop(h)
    \/ \E h \in LiveHandles : StoreHeartbeatBegin(h)
    \/ \E h \in LiveHandles : StoreHeartbeatOk(h)
    \/ \E h \in LiveHandles : StoreHeartbeatLost(h)
    \/ \E h \in LiveHandles : StoreHeartbeatRetry(h)
    \/ \E h \in LiveHandles : StoreHeartbeatError(h)
    \/ \E h \in LiveHandles, o \in LockOptions : Do(h, "a", o)
    \/ \E h \in LiveHandles : DoContextCancelled(h)
    \/ \E h \in LiveHandles : DoStoreAcquireOk(h)
    \/ \E h \in LiveHandles : DoStoreAcquireNotAcquired(h)
    \/ \E h \in LiveHandles : DoStoreAcquireRetry(h)
    \/ \E h \in LiveHandles : DoStoreAcquireError(h)
    \/ \E h \in LiveHandles : DoWake(h)
    \/ \E h \in LiveHandles : DoWakeCancelled(h)
    \/ \E h \in LiveHandles : DoCancelContext(h)
    \/ \E h \in LiveHandles : DoHeartbeatExit(h)
    \/ \E h \in LiveHandles : FRelease(h)
    \/ \E h \in LiveHandles : FWait(h)
    \/ \E h \in LiveHandles, e \in FErrors : FReturn(h, e)
    \/ \E h \in LiveHandles : DoCloseAlreadyReleased(h)
    \/ \E h \in LiveHandles : DoCloseOk(h)
    \/ \E h \in LiveHandles : DoCloseLost(h)
    \/ \E h \in LiveHandles : DoCloseRetry(h)
    \/ \E h \in LiveHandles : DoCloseError(h)

DoSpec == Init /\ [][DoNext]_vars

(* The scheduling of Do: the goroutine that do started is not stopped by  *)
(* anything, so it runs its deferred cancel once heartbeat has returned.  *)
DoFairness == \A h \in LiveHandles : WF_vars(DoHeartbeatExit(h))

DoLiveSpec == Init /\ [][DoNext]_vars /\ DoFairness

----------------------------------------------------------------------------
(* The heartbeat goroutine in discrete time.  A client made by New with a  *)
(* heartbeat frequency and a lease (isDurationTooSmall is false) holds the *)
(* name "a" and no other client touches the row.  A tick is one unit of    *)
(* time; the timer of time.After fires when it has run heartbeatFrequency  *)
(* ticks, and a storeHeartbeat runs under context.WithTimeout of one       *)
(* lease.                                                                  *)

TimedHandle == 1

TimedInit ==
    /\ \E f \in 1..MaxFreq :
          /\ leaseDuration \in (2 * f)..MaxLease
          /\ timer = f
          /\ lock = [h \in Handles |->
                        IF h = TimedHandle
                        THEN [newLock("a", DefaultOptions) EXCEPT
                                 !.recordVersionNumber = 1,
                                 !.heartbeatFrequency = f]
                        ELSE NoLock]
    /\ table = [n \in Names |->
                   IF n = "a" THEN [exists |-> TRUE, rvn |-> 1, data |-> ""]
                   ELSE NoRow]
    /\ seq = 1
    /\ pc = [h \in Handles |-> IF h = TimedHandle THEN "held" ELSE "idle"]
    /\ hb = [h \in Handles |-> IF h = TimedHandle THEN "waiting" ELSE "none"]
    /\ installed = [n \in Names |-> IF n = "a" THEN {1} ELSE {}]
    /\ ctxDone = [h \in Handles |-> FALSE]
    /\ txRvn = [h \in Handles |-> 0]
    /\ hbRvn = [h \in Handles |-> 0]
    /\ hbCtxDone = [h \in Handles |-> FALSE]
    /\ relResult = [h \in Handles |-> "none"]
    /\ learnt = [h \in Handles |-> FALSE]
    /\ hbErr = [h \in Handles |-> "none"]
    /\ firstRelease = [h \in Handles |-> "none"]
    /\ doErr = [h \in Handles |-> "none"]
    /\ fReturned = [h \in Handles |-> {}]
    /\ acquired = [h \in Handles |-> FALSE]
    /\ txAge = 0
    /\ sendAge = 0
    /\ sinceRefresh = 0
    /\ sleepLease = 0
    /\ slept = 0
    /\ client = NoClient
    /\ retryCall = NoCall
    /\ getResult = NoResult

(* one unit of time passes: not beyond the firing of the timer, which the  *)
(* goroutine takes at once, nor beyond the deadline of the transaction     *)
Tick(h) ==
    /\ hb[h] \in {"waiting", "tx"}
    /\ hb[h] = "waiting" => timer > 0
    /\ hb[h] = "tx" => txAge < leaseDuration
    /\ sinceRefresh <= leaseDuration
    /\ timer' = IF hb[h] = "waiting" THEN timer - 1 ELSE timer
    /\ txAge' = IF hb[h] = "tx" THEN txAge + 1 ELSE txAge
    /\ sendAge' = IF hb[h] = "tx" THEN sendAge + 1 ELSE sendAge
    /\ sinceRefresh' = sinceRefresh + 1
    /\ UNCHANGED <<table, seq, lock, pc, ctxDone, txRvn, hb, hbRvn, hbCtxDone,
                   relResult, installed, learnt, hbErr, firstRelease, doVars,
                   leaseDuration, sleepLease, slept,
                   callVars>>

(* case <-time.After(c.heartbeatFrequency): SendHeartbeat, storeHeartbeat  *)
(* begins its transaction and draws the RVN                                *)
TimedHeartbeatBegin(h) ==
    /\ hb[h] = "waiting"
    /\ timer = 0
    /\ seq < MaxSeq
    /\ seq' = getNextRVN(seq)
    /\ hbRvn' = [hbRvn EXCEPT ![h] = seq']
    /\ hb' = [hb EXCEPT ![h] = "tx"]
    /\ txAge' = 0
    /\ sendAge' = 0
    /\ UNCHANGED <<table, lock, pc, ctxDone, txRvn, hbCtxDone, relResult,
                   installed, learnt, hbErr, firstRelease, doVars,
                   leaseDuration, sleepLease, slept,
                   timer, sinceRefresh, callVars>>

(* one row affected and the commit before the deadline: the RVN is         *)
(* refreshed, the loop waits time.After(c.heartbeatFrequency) again        *)
TimedHeartbeatOk(h) ==
    /\ hb[h] = "tx"
    /\ txAge < leaseDuration
    /\ HeartbeatAffected(table[lock[h].name], lock[h].recordVersionNumber)
    /\ table' = [table EXCEPT ![lock[h].name] = HeartbeatRow(@, hbRvn[h])]
    /\ lock' = [lock EXCEPT ![h].recordVersionNumber = hbRvn[h]]
    /\ installed' = [installed EXCEPT ![lock[h].name] = @ \cup {hbRvn[h]}]
    /\ hb' = [hb EXCEPT ![h] = "waiting"]
    /\ hbRvn' = [hbRvn EXCEPT ![h] = 0]
    /\ hbErr' = [hbErr EXCEPT ![h] = "ok"]
    /\ timer' = lock[h].heartbeatFrequency
    /\ txAge' = 0
    /\ sendAge' = 0
    /\ sinceRefresh' = 0
    /\ UNCHANGED <<seq, pc, ctxDone, txRvn, hbCtxDone, relResult, learnt,
                   firstRelease, doVars, leaseDuration, sleepLease, slept,
                   callVars>>

(* SQLSTATE 40001 before the deadline: retry calls storeHeartbeat again,   *)
(* with a new transaction and a new timeout                                *)
TimedHeartbeatRetry(h) ==
    /\ hb[h] = "tx"
    /\ txAge < leaseDuration
    /\ seq < MaxSeq
    /\ seq' = getNextRVN(seq)
    /\ hbRvn' = [hbRvn EXCEPT ![h] = seq']
    /\ txAge' = 0
    /\ UNCHANGED <<table, lock, pc, ctxDone, txRvn, hb, hbCtxDone, relResult,
                   installed, learnt, hbErr, firstRelease, doVars,
                   leaseDuration, sleepLease, slept,
                   timer, sendAge, sinceRefresh, callVars>>

(* the deadline of the transaction or another error: the heartbeat failed, *)
(* the goroutine returns                                                   *)
TimedHeartbeatError(h) ==
    /\ hb[h] = "tx"
    /\ hb' = [hb EXCEPT ![h] = "stopped"]
    /\ hbRvn' = [hbRvn EXCEPT ![h] = 0]
    /\ hbErr' = [hbErr EXCEPT ![h] = ErrOther]
    /\ UNCHANGED <<table, seq, lock, pc, ctxDone, txRvn, hbCtxDone, relResult,
                   installed, learnt, firstRelease, doVars, timeVars,
                   callVars>>

TimedNext ==
    \/ Tick(TimedHandle)
    \/ TimedHeartbeatBegin(TimedHandle)
    \/ TimedHeartbeatOk(TimedHandle)
    \/ TimedHeartbeatRetry(TimedHandle)
    \/ TimedHeartbeatError(TimedHandle)

TimedSpec == TimedInit /\ [][TimedNext]_vars

----------------------------------------------------------------------------
(* The wait loop of AcquireContext against a live holder, in discrete      *)
(* time.  The holder is the one of TimedInit: its heartbeat goroutine runs *)
(* and the database answers every SendHeartbeat within one                 *)
(* heartbeatFrequency.  A contender calls AcquireContext for the same name *)
(* with a lock option that sets l.leaseDuration (newLock applies the       *)
(* options after l.leaseDuration = c.leaseDuration; New validates          *)
(* c.leaseDuration only), and sleeps l.leaseDuration between its attempts. *)

Contender == 2

(* the value of the sequence up to which the holder and the contender of   *)
(* the timed wait loop begin transactions                                  *)
MaxTimedSeq == 6

(* the leases a lock option can give a handle, in ticks *)
LeaseOptions == 1..MaxLease

WaitInit ==
    /\ \E f \in 1..MaxFreq :
          /\ leaseDuration \in (2 * f)..MaxLease
          /\ timer = f
          /\ lock = [h \in Handles |->
                        IF h = TimedHandle
                        THEN [newLock("a", DefaultOptions) EXCEPT
                                 !.recordVersionNumber = 1,
                                 !.heartbeatFrequency = f]
                        ELSE NoLock]
    /\ sleepLease \in LeaseOptions
    /\ table = [n \in Names |->
                   IF n = "a" THEN [exists |-> TRUE, rvn |-> 1, data |-> ""]
                   ELSE NoRow]
    /\ seq = 1
    /\ pc = [h \in Handles |-> IF h = TimedHandle THEN "held" ELSE "idle"]
    /\ hb = [h \in Handles |-> IF h = TimedHandle THEN "waiting" ELSE "none"]
    /\ installed = [n \in Names |-> IF n = "a" THEN {1} ELSE {}]
    /\ ctxDone = [h \in Handles |-> FALSE]
    /\ txRvn = [h \in Handles |-> 0]
    /\ hbRvn = [h \in Handles |-> 0]
    /\ hbCtxDone = [h \in Handles |-> FALSE]
    /\ relResult = [h \in Handles |-> "none"]
    /\ learnt = [h \in Handles |-> FALSE]
    /\ hbErr = [h \in Handles |-> "none"]
    /\ firstRelease = [h \in Handles |-> "none"]
    /\ doErr = [h \in Handles |-> "none"]
    /\ fReturned = [h \in Handles |-> {}]
    /\ acquired = [h \in Handles |-> FALSE]
    /\ txAge = 0
    /\ sendAge = 0
    /\ sinceRefresh = 0
    /\ slept = 0
    /\ client = NoClient
    /\ retryCall = NoCall
    /\ getResult = NoResult

(* one unit of time passes: not beyond the firing of the timer of the      *)
(* holder h, which its goroutine takes at once, nor beyond one             *)
(* heartbeatFrequency of a SendHeartbeat in flight, nor beyond the end of  *)
(* the time.Sleep(l.leaseDuration) of the contender c                      *)
WaitTick(h, c) ==
    /\ hb[h] \in {"waiting", "tx"}
    /\ hb[h] = "waiting" => timer > 0
    /\ hb[h] = "tx" => sendAge < lock[h].heartbeatFrequency
    /\ pc[c] = "sleep" => slept < sleepLease
    /\ timer' = IF hb[h] = "waiting" THEN timer - 1 ELSE timer
    /\ txAge' = IF hb[h] = "tx" THEN txAge + 1 ELSE txAge
    /\ sendAge' = IF hb[h] = "tx" THEN sendAge + 1 ELSE sendAge
    /\ slept' = IF pc[c] = "sleep" THEN slept + 1 ELSE slept
    /\ UNCHANGED <<table, seq, lock, pc, ctxDone, txRvn, hb, hbRvn, hbCtxDone,
                   relResult, installed, learnt, hbErr, firstRelease, doVars,
                   leaseDuration, sinceRefresh, sleepLease, callVars>>

(* case <-time.After(c.heartbeatFrequency): SendHeartbeat, storeHeartbeat  *)
(* begins its transaction and draws the RVN                                *)
WaitHeartbeatBegin(h) ==
    /\ hb[h] = "waiting"
    /\ timer = 0
    /\ seq < MaxTimedSeq
    /\ seq' = getNextRVN(seq)
    /\ hbRvn' = [hbRvn EXCEPT ![h] = seq']
    /\ hb' = [hb EXCEPT ![h] = "tx"]
    /\ txAge' = 0
    /\ sendAge' = 0
    /\ UNCHANGED <<table, lock, pc, ctxDone, txRvn, hbCtxDone, relResult,
                   installed, learnt, hbErr, firstRelease, doVars,
                   leaseDuration, timer, sinceRefresh, sleepLease, slept,
                   callVars>>

(* time.Sleep(l.leaseDuration) has returned; continue; the context is live *)
(* at the select: the next attempt begins                                  *)
WaitAcquireWake(c) ==
    /\ pc[c] = "sleep"
    /\ slept = sleepLease
    /\ ~ctxDone[c]
    /\ seq < MaxTimedSeq
    /\ StoreAcquireBegin(c)
    /\ slept' = 0
    /\ UNCHANGED <<table, lock, ctxDone, hb, hbRvn, hbCtxDone, relResult,
                   installed, learnt, hbErr, firstRelease, doVars,
                   leaseDuration, timer, txAge, sendAge, sinceRefresh,
                   sleepLease, callVars>>

WaitNext ==
    \/ WaitTick(TimedHandle, Contender)
    \/ WaitHeartbeatBegin(TimedHandle)
    \/ TimedHeartbeatOk(TimedHandle)
    \/ StoreHeartbeatLost(TimedHandle)
    \/ AcquireContext(Contender, "a", DefaultOptions)
    \/ StoreAcquireNotAcquired(Contender)
    \/ WaitAcquireWake(Contender)
    \/ StoreAcquireOk(Contender)

WaitSpec == WaitInit /\ [][WaitNext]_vars

----------------------------------------------------------------------------
(* New, isDurationTooSmall.  Durations are in units of 5 seconds. *)

MinDuration == -(2^(DurationBits - 1))
MaxDuration == 2^(DurationBits - 1) - 1
Durations == MinDuration..MaxDuration

(* the result of an arithmetic operation on time.Duration: it wraps around *)
WrapDuration(x) ==
    ((x - MinDuration + 2^DurationBits) % 2^DurationBits) + MinDuration

DefaultLeaseDuration == 4
DefaultHeartbeatFrequency == 1

ErrNotPostgreSQLDriver == "ErrNotPostgreSQLDriver"
ErrDurationTooSmall == "ErrDurationTooSmall"

(* what New may be given: nil, the pool of another driver, the pool of pq *)
Databases == {"nil", "other", "pq"}

(* WithLeaseDuration(d), WithHeartbeatFrequency(d), given or not *)
DurationOptions == [given : BOOLEAN, d : Durations]

(* c.heartbeatFrequency > 0 && c.leaseDuration < 2*c.heartbeatFrequency *)
isDurationTooSmall(c) ==
    /\ c.heartbeatFrequency > 0
    /\ c.leaseDuration < WrapDuration(2 * c.heartbeatFrequency)

(* the Client with the defaults, after the options ran on it *)
Configured(db, withLease, withFreq) ==
    [db |-> db,
     leaseDuration |->
         IF withLease.given THEN withLease.d ELSE DefaultLeaseDuration,
     heartbeatFrequency |->
         IF withFreq.given THEN withFreq.d ELSE DefaultHeartbeatFrequency,
     err |-> "nil"]

(* New(db, opts...): the check of the driver, the defaults, the options,   *)
(* the validation                                                          *)
New(db, withLease, withFreq) ==
    /\ client = NoClient
    /\ retryCall = NoCall
    /\ getResult = NoResult
    /\ client' =
          IF db # "pq"
          THEN [NoClient EXCEPT !.db = db, !.err = ErrNotPostgreSQLDriver]
          ELSE IF isDurationTooSmall(Configured(db, withLease, withFreq))
          THEN [Configured(db, withLease, withFreq)
                    EXCEPT !.err = ErrDurationTooSmall]
          ELSE Configured(db, withLease, withFreq)
    /\ UNCHANGED <<engineVars, retryCall, getResult>>

NewNext ==
    \E db \in Databases, withLease, withFreq \in DurationOptions :
        New(db, withLease, withFreq)

NewSpec == Init /\ [][NewNext]_vars

----------------------------------------------------------------------------
(* Client.GetDataContext, Client.getLock *)

(* retry -> getLock: the row is read and its data returned, or there is no *)
(* row and ErrLockNotFound is returned                                     *)
GetDataContext(name) ==
    /\ getResult' = [name |-> name, data |-> getLock(name)[1],
                     err |-> getLock(name)[2]]
    /\ UNCHANGED <<engineVars, client, retryCall>>

(* getLock: SQLSTATE 40001, retry calls getLock again *)
GetDataRetry(name) ==
    /\ UNCHANGED vars

(* getLock: any other error is returned, with no data *)
GetDataError(name) ==
    /\ getResult' = [name |-> name, data |-> "", err |-> ErrOther]
    /\ UNCHANGED <<engineVars, client, retryCall>>

(* Two clients that acquire, heartbeat and release, and a reader *)
GetNext ==
    \/ LiveNext
    \/ \E n \in Names : GetDataContext(n)
    \/ \E n \in Names : GetDataRetry(n)
    \/ \E n \in Names : GetDataError(n)

GetSpec == Init /\ [][GetNext]_vars

----------------------------------------------------------------------------
(* Client.retry under the public operations.  An attempt is one call of    *)
(* the function given to retry: tryAcquire, storeRelease, storeHeartbeat   *)
(* or getLock.  It meets at most one error of the driver, at one of its    *)
(* statements, or ends with nil or with a sentinel of the operation.       *)

Operations == {"Acquire", "Release", "SendHeartbeat", "GetData"}

(* the sentinels that an attempt of the operation returns without an       *)
(* error of the driver                                                     *)
SentinelsOf(op) ==
    CASE op = "Acquire" -> {ErrNotAcquired}
      [] op = "Release" -> {ErrLockAlreadyReleased}
      [] op = "SendHeartbeat" -> {ErrLockAlreadyReleased}
      [] op = "GetData" -> {}

(* what the attempt returns when the driver answers err: getLock turns     *)
(* sql.ErrNoRows into ErrLockNotFound before typedError, everything else   *)
(* goes through typedError                                                 *)
AttemptError(op, err) ==
    IF op = "GetData" /\ err.type = "sql.ErrNoRows"
    THEN Sentinel(ErrLockNotFound)
    ELSE typedError(err)

(* the public operation is called: retry runs *)
RetryCall(op) ==
    /\ retryCall.status = "none"
    /\ retryCall' = [NoCall EXCEPT !.op = op, !.status = "running"]
    /\ UNCHANGED <<engineVars, client, getResult>>

(* retry that also reissues an attempt that failed with Unavailable *)
RetryAlsoOnUnavailable(err) ==
    /\ retryCall.status = "running"
    /\ LET e == AttemptError(retryCall.op, err)
           again == IsKind("FailedPrecondition", e) \/ IsKind("Unavailable", e)
       IN /\ again => retryCall.attempts + 1 < MaxAttempts
          /\ retryCall' =
                [retryCall EXCEPT !.attempts = @ + 1, !.driverErr = err,
                                  !.typed = typedError(err), !.last = e,
                                  !.status = IF again THEN "running" ELSE "returned",
                                  !.ret = IF again THEN @ ELSE e]
    /\ UNCHANGED <<engineVars, client, getResult>>

(* retry: err := f(); if errors.Is(errors.FailedPrecondition, err)         *)
(* continue, else return err.  The attempt met the error err of the        *)
(* driver (nil: it succeeded).                                             *)
Retry(err) ==
    /\ retryCall.status = "running"
    /\ LET e == AttemptError(retryCall.op, err)
           again == IsKind("FailedPrecondition", e)
       IN /\ again => retryCall.attempts + 1 < MaxAttempts
          /\ retryCall' =
                [retryCall EXCEPT !.attempts = @ + 1, !.driverErr = err,
                                  !.typed = typedError(err), !.last = e,
                                  !.status = IF again THEN "running" ELSE "returned",
                                  !.ret = IF again THEN @ ELSE e]
    /\ UNCHANGED <<engineVars, client, getResult>>

(* retry, the attempt returned a sentinel of the operation *)
RetrySentinel(name) ==
    /\ retryCall.status = "running"
    /\ name \in SentinelsOf(retryCall.op)
    /\ retryCall' =
          [retryCall EXCEPT !.attempts = @ + 1, !.last = Sentinel(name),
                            !.driverErr = NoCall.driverErr, !.typed = NilError,
                            !.status = "returned", !.ret = Sentinel(name)]
    /\ UNCHANGED <<engineVars, client, getResult>>

(* the caller has the result; the next call *)
RetryDone ==
    /\ retryCall.status = "returned"
    /\ retryCall' = NoCall
    /\ UNCHANGED <<engineVars, client, getResult>>

RetryNext ==
    \/ \E op \in Operations : RetryCall(op)
    \/ \E err \in DriverErrors : Retry(err)
    \/ \E name \in {ErrNotAcquired, ErrLockAlreadyReleased} : RetrySentinel(name)
    \/ RetryDone

RetrySpec == Init /\ [][RetryNext]_vars

----------------------------------------------------------------------------
(* Properties *)

Row(h) == table[lock[h].name]

(* the handle was returned by a successful acquisition and not released *)
Holds(h) == pc[h] = "held" /\ ~lock[h].isReleased

(* the handle's claim is valid: its RVN is the row's *)
ValidClaim(h) == Row(h).exists /\ SqlEq(Row(h).rvn, lock[h].recordVersionNumber)

(* the attempt in flight on h would succeed against the row as it is *)
CanAcquire(h) == pc[h] = "tx" /\ ~ctxDone[h] /\ AcquireRow(h).rvn = txRvn[h]

AllInstalled == UNION {installed[n] : n \in Names}

FencingOrder ==
    \A n \in Names :
        (table[n].exists /\ table[n].rvn # NULL) =>
            table[n].rvn = MaxOf(installed[n])

(* C4: RVNs are never reused. No commit installs an RVN that an earlier    *)
(* commit installed, on any name; every RVN in a row was drawn from the    *)
(* sequence, so it is greater than 0.                                      *)
NoReuse ==
    /\ [](\A n \in Names :
            (table[n].exists /\ table[n].rvn # NULL) =>
                (table[n].rvn \in 1..seq /\ table[n].rvn \in installed[n]))
    /\ [](\A n, m \in Names : n # m => installed[n] \cap installed[m] = {})
    /\ [][\A n \in Names :
            (table'[n].rvn # NULL /\ table'[n] # table[n]) =>
                (table'[n].rvn \notin AllInstalled \/ table'[n].rvn = table[n].rvn)
        ]_vars

(* both names carry an RVN, one of them refreshed by a heartbeat *)
NoReuseWitness ==
    \E n, m \in Names :
        /\ n # m
        /\ table[n].exists /\ table[n].rvn # NULL
        /\ table[m].exists /\ table[m].rvn # NULL
        /\ Cardinality(installed[n]) >= 2

(* C5: a fresh contender (recordVersionNumber 0) succeeds only on an       *)
(* absent or free row; an attempt that succeeds on a held row is made by a *)
(* handle that stores the row's RVN, which a failed attempt of that handle *)
(* stored.                                                                 *)
TakeoverNeedsObservedRVN ==
    [][\A h \in Handles :
          (pc[h] = "tx" /\ pc'[h] = "held") =>
              /\ lock[h].recordVersionNumber = 0 =>
                    (~Row(h).exists \/ Row(h).rvn = NULL)
              /\ (Row(h).exists /\ Row(h).rvn # NULL) =>
                    (lock[h].recordVersionNumber = Row(h).rvn /\ learnt[h])
      ]_vars

(* a waiter took the row over from a holder whose heartbeat has stopped *)
TakeoverNeedsObservedRVNWitness ==
    \E h, g \in Handles :
        /\ h # g
        /\ Holds(h) /\ ValidClaim(h)
        /\ Holds(g) /\ lock[g].name = lock[h].name
        /\ hb[g] = "stopped"
        /\ lock[g].recordVersionNumber + 2 = lock[h].recordVersionNumber

(* the largest RVN a behaviour draws: waiters attempt again only after   *)
(* the row changed                                                       *)
MaxRVN == MaxSeq + 4

(* the call of AcquireContext on h waits for the name n *)
Waits(h, n) ==
    /\ pc[h] \in {"tx", "sleep"}
    /\ lock[h].name = n
    /\ ~lock[h].failIfLocked
    /\ ~ctxDone[h]

(* C6: takeover after silence. A call of AcquireContext without            *)
(* failIfLocked that waits for a name whose row keeps its RVN (the holder  *)
(* sends no heartbeat and does not release, no other contender takes the   *)
(* row) eventually returns with the lock, as long as its context is live   *)
(* and the database admits its transactions. It does so by its second      *)
(* attempt at the latest: the first attempt after the last change of the   *)
(* row records the row's RVN in the handle, and an attempt that carries    *)
(* the RVN of the row never fails with ErrNotAcquired.                     *)
TakeoverAfterSilence ==
    /\ \A h \in LiveHandles, n \in Names, r \in {NULL} \cup (1..MaxRVN) :
          (Waits(h, n) /\ table[n].rvn = r) ~>
              \/ Holds(h) /\ lock[h].name = n /\ ValidClaim(h)
              \/ table[n].rvn # r
              \/ ctxDone[h]
              \/ pc[h] = "error"
    /\ [](seq <= MaxRVN)
    /\ [][\A h \in LiveHandles :
            (pc[h] = "tx" /\ pc'[h] \in {"sleep", "failed"}) =>
                /\ Row(h).exists
                /\ Row(h).rvn # NULL
                /\ Row(h).rvn # lock[h].recordVersionNumber
        ]_vars

(* the holder crashed after its last heartbeat, and the contender took    *)
(* the row over in its second attempt, with the RVN it had recorded        *)
TakeoverAfterSilenceWitness ==
    \E h, g \in LiveHandles :
        /\ pc[g] = "crashed"
        /\ Holds(h) /\ ValidClaim(h)
        /\ lock[h].recordVersionNumber > 2
        /\ installed[lock[h].name] # {lock[h].recordVersionNumber}

(* C7: a failed attempt has no effect on the table; the handle's           *)
(* recordVersionNumber becomes the RVN of the row.                         *)
FailedAttemptHasNoEffect ==
    [][\A h \in Handles :
          (pc[h] = "tx" /\ pc'[h] \in {"sleep", "failed"}) =>
              /\ table' = table
              /\ seq' = seq
              /\ lock'[h].recordVersionNumber = Row(h).rvn
              /\ lock'[h].data = lock[h].data
      ]_vars

(* a failed attempt that would have replaced the data left the row alone *)
FailedAttemptHasNoEffectWitness ==
    \E h \in Handles :
        /\ pc[h] \in {"sleep", "failed"}
        /\ lock[h].replaceData
        /\ Row(h).exists
        /\ Row(h).data # lock[h].data
        /\ lock[h].recordVersionNumber = Row(h).rvn

(* C8: the wait loop. Without failIfLocked a failed attempt leads to the   *)
(* sleep, the sleep to the next attempt (or, the context cancelled, to the *)
(* return of ErrNotAcquired), and ErrNotAcquired is returned only with a   *)
(* cancelled context. With failIfLocked the first failed attempt returns   *)
(* ErrNotAcquired: no sleep, no other attempt, no heartbeat goroutine.     *)
WaitLoop ==
    /\ [](\A h \in Handles :
            /\ pc[h] = "sleep" => ~lock[h].failIfLocked
            /\ pc[h] = "failed" => (lock[h].failIfLocked /\ hb[h] = "none")
            /\ pc[h] = "cancelled" => ctxDone[h])
    /\ [][\A h \in Handles :
            /\ (pc[h] = "tx" /\ pc'[h] \notin {"tx", "held", "error"}) =>
                  pc'[h] = IF lock[h].failIfLocked THEN "failed" ELSE "sleep"
            /\ (pc[h] = "sleep" /\ pc'[h] # "sleep") =>
                  \/ pc'[h] = "tx" /\ ~ctxDone[h] /\ seq' = seq + 1
                  \/ pc'[h] = "cancelled" /\ ctxDone[h]
            /\ pc[h] = "failed" =>
                  (pc'[h] = "failed" /\ txRvn'[h] = 0 /\ hb'[h] = "none")
        ]_vars

(* a waiter has slept and is in its second attempt, with the RVN it saw on *)
(* the row, which is still held                                            *)
WaitLoopWitness ==
    \E h, g \in Handles :
        /\ pc[h] = "tx" /\ learnt[h] /\ ~lock[h].failIfLocked
        /\ Holds(g) /\ ValidClaim(g) /\ lock[g].name = lock[h].name
        /\ lock[h].recordVersionNumber = lock[g].recordVersionNumber

ReleaseByHolder ==
    [][\A h \in Handles :
          (CanRelease(h) /\ ~lock[h].isReleased /\ ValidClaim(h)
             /\ pc'[h] = pc[h] /\ relResult'[h] # relResult[h]) =>
              \/ /\ relResult'[h] = ErrOther
                 /\ table' = table
                 /\ lock' = lock
              \/ /\ relResult'[h] = "ok"
                 /\ lock'[h].isReleased
                 /\ \A n \in Names \ {lock[h].name} : table'[n] = table[n]
                 /\ ~lock[h].keepOnRelease =>
                       (~Row(h)'.exists /\ getLock(lock[h].name)'[2] = ErrLockNotFound)
                 /\ lock[h].keepOnRelease =>
                       /\ Row(h)'.exists
                       /\ Row(h)'.rvn = NULL
                       /\ Row(h)'.data = Row(h).data
                       /\ getLock(lock[h].name)' = <<Row(h).data, "ok">>
      ]_vars

(* a handle released with keepOnRelease: the row is free and has its data *)
ReleaseByHolderWitness ==
    \E h \in Handles :
        /\ relResult[h] = "ok"
        /\ lock[h].isReleased
        /\ lock[h].keepOnRelease
        /\ Row(h).exists /\ Row(h).rvn = NULL /\ Row(h).data = "P"

(* C11: Release is idempotent. Once a Release on a handle has returned nil *)
(* or ErrLockAlreadyReleased, the handle stays released and every later    *)
(* Release on it returns ErrLockAlreadyReleased without changing a row or  *)
(* the handle, whatever other clients did to the name in between.          *)
ReleaseIdempotent ==
    /\ [](\A h \in Handles :
            firstRelease[h] # "none" =>
                /\ lock[h].isReleased
                /\ ~ENABLED StoreReleaseOk(h)
                /\ ~ENABLED StoreReleaseLost(h)
                /\ ~ENABLED StoreReleaseError(h))
    /\ [][\A h \in Handles :
            (firstRelease[h] # "none" /\ relResult'[h] # relResult[h]) =>
                /\ relResult'[h] = ErrLockAlreadyReleased
                /\ table' = table
                /\ lock' = lock
        ]_vars

(* a handle released with nil, the name acquired again by another client,  *)
(* and a second Release on the handle returned ErrLockAlreadyReleased       *)
ReleaseIdempotentWitness ==
    \E h, g \in Handles :
        /\ firstRelease[h] = "ok"
        /\ relResult[h] = ErrLockAlreadyReleased
        /\ Holds(g) /\ ValidClaim(g)
        /\ lock[g].name = lock[h].name

(* C12: release of a stolen or deleted lock. A Release on an unreleased    *)
(* handle that held the lock and whose RVN is no longer the row's (the     *)
(* name was taken over, or the row is free or gone) returns                *)
(* ErrLockAlreadyReleased, marks the handle released and cancels its       *)
(* heartbeat, and changes no row: the new holder keeps its RVN and data.   *)
(* The only other return is an error of the database, nothing changed.     *)
ReleaseOfStolenLock ==
    [][\A h \in Handles :
          (/\ pc[h] = "held" /\ pc'[h] = "held"
           /\ ~lock[h].isReleased
           /\ ~ValidClaim(h)
           /\ relResult'[h] # relResult[h] \/ firstRelease'[h] # firstRelease[h]) =>
              /\ table' = table
              /\ \/ /\ relResult'[h] = ErrOther
                    /\ lock' = lock
                    /\ hbCtxDone' = hbCtxDone
                 \/ /\ relResult'[h] = ErrLockAlreadyReleased
                    /\ firstRelease'[h] = ErrLockAlreadyReleased
                    /\ lock'[h] = [lock[h] EXCEPT !.isReleased = TRUE]
                    /\ hbCtxDone'[h]
      ]_vars

(* the stale holder released after a takeover: the new holder's claim is   *)
(* still valid                                                             *)
ReleaseOfStolenLockWitness ==
    \E h, g \in Handles :
        /\ pc[h] = "held"
        /\ firstRelease[h] = ErrLockAlreadyReleased
        /\ relResult[h] = ErrLockAlreadyReleased
        /\ hbCtxDone[h]
        /\ Holds(g) /\ ValidClaim(g)
        /\ lock[g].name = lock[h].name

(* C13: heartbeat loss detection. When the update of a heartbeat affects   *)
(* no row (the row's RVN is not the handle's, or the row is gone), no row  *)
(* changes, the handle's isReleased becomes true, SendHeartbeat returns    *)
(* ErrLockAlreadyReleased, and the heartbeat goroutine returns: it issues  *)
(* no other heartbeat for the handle.                                      *)
HeartbeatLossDetection ==
    /\ [](\A h \in Handles :
            hbErr[h] = ErrLockAlreadyReleased =>
                /\ hb[h] = "stopped"
                /\ hbRvn[h] = 0
                /\ lock[h].isReleased
                /\ ~ENABLED StoreHeartbeatBegin(h))
    /\ [][\A h \in Handles :
            (/\ hb[h] = "tx"
             /\ ~HeartbeatAffected(Row(h), lock[h].recordVersionNumber)
             /\ hb'[h] \notin {"tx", "none"}
             /\ hbErr'[h] # ErrOther) =>
                /\ table' = table
                /\ seq' = seq
                /\ lock'[h] = [lock[h] EXCEPT !.isReleased = TRUE]
                /\ hbErr'[h] = ErrLockAlreadyReleased
                /\ hb'[h] = "stopped"
        ]_vars

(* the heartbeat of a handle that was never released found its row taken   *)
(* over                                                                    *)
HeartbeatLossDetectionWitness ==
    \E h, g \in Handles :
        /\ hbErr[h] = ErrLockAlreadyReleased
        /\ firstRelease[h] = "none"
        /\ lock[h].isReleased
        /\ Holds(g) /\ ValidClaim(g)
        /\ lock[g].name = lock[h].name

(* C14: the effect of a successful heartbeat. It replaces the row's RVN by *)
(* the newly drawn RVN, which is greater than the one it replaces, sets    *)
(* the handle's recordVersionNumber to it (the claim stays valid), and     *)
(* leaves the row's data, every other row and the rest of the handle       *)
(* unchanged.                                                              *)
HeartbeatEffect ==
    [][\A h \in Handles :
          (hb[h] = "tx" /\ hb'[h] = "waiting") =>
              /\ ValidClaim(h)
              /\ Row(h)'.exists
              /\ Row(h)'.rvn = hbRvn[h]
              /\ Row(h)'.rvn > Row(h).rvn
              /\ Row(h)'.data = Row(h).data
              /\ lock'[h] = [lock[h] EXCEPT !.recordVersionNumber = hbRvn[h]]
              /\ ValidClaim(h)'
              /\ hbErr'[h] = "ok"
              /\ \A n \in Names \ {lock[h].name} : table'[n] = table[n]
      ]_vars

(* a heartbeat refreshed a row that carries a payload *)
HeartbeatEffectWitness ==
    \E h \in Handles :
        /\ hbErr[h] = "ok"
        /\ Holds(h) /\ ValidClaim(h)
        /\ Row(h).data = "P"

(* C16: data fidelity. A successful acquisition with payload P leaves in   *)
(* the row (and GetData returns) P when replaceData is set or the row did  *)
(* not exist, and the payload stored before when replaceData is not set    *)
(* and the row existed (free, or held and taken over), also when P is      *)
(* empty; the handle's data after the acquisition is the row's data.       *)
DataFidelity ==
    [][\A h \in Handles :
          (pc[h] = "tx" /\ pc'[h] = "held") =>
              /\ Row(h)'.data =
                    IF lock[h].replaceData \/ ~Row(h).exists
                    THEN lock[h].data
                    ELSE Row(h).data
              /\ getLock(lock[h].name)' = <<Row(h)'.data, "ok">>
              /\ lock'[h].data = Row(h)'.data
      ]_vars

(* a call without replaceData acquired a row that existed (an RVN had     *)
(* been installed on the name before, and the handle sent no heartbeat     *)
(* yet): the row and the handle have the payload P                         *)
DataFidelityWitness ==
    \E h \in Handles :
        /\ Holds(h) /\ ValidClaim(h)
        /\ hbErr[h] = "none"
        /\ ~lock[h].replaceData
        /\ Cardinality(installed[lock[h].name]) >= 2
        /\ Row(h).data = "P"
        /\ lock[h].data = "P"

(* C15: heartbeat liveness in discrete time.  For a handle held           *)
(* with heartbeatFrequency > 0 and lease >= 2 x heartbeatFrequency, while  *)
(* no contender changes the row, no heartbeat fails and the handle is not  *)
(* released, the RVN is refreshed at least once in every window of one     *)
(* lease: every heartbeat that commits does so at most one lease after    *)
(* the RVN it replaces was installed.                                      *)
HeartbeatWindow ==
    [][(hb[TimedHandle] = "tx" /\ hb'[TimedHandle] = "waiting") =>
           sinceRefresh <= leaseDuration]_vars

----------------------------------------------------------------------------
(* a Do call runs f *)
InF(h) == pc[h] \in {"f", "fwait"}

(* C17: Do invokes f only after a successful acquisition.  f starts only   *)
(* by the step in which the storeAcquire of this Do call commits: the      *)
(* context is live, the row takes the RVN that the attempt drew, an RVN    *)
(* that was never in a row before, and the handle records it.  So f runs   *)
(* or has returned only in a call that acquired the lock, and a call that  *)
(* ended without acquiring it (a cancelled context, failIfLocked, an error *)
(* of the database) never ran f and returns ErrNotAcquired or the error.   *)
DoCallsFAfterAcquire ==
    /\ [][\A h \in Handles :
            (InF(h)' /\ ~InF(h)) =>
                /\ pc[h] = "dtx" /\ pc'[h] = "f"
                /\ ~ctxDone[h]
                /\ txRvn[h] \notin AllInstalled
                /\ table'[lock[h].name].rvn = txRvn[h]
                /\ lock'[h].recordVersionNumber = txRvn[h]
                /\ acquired'[h]]_vars
    /\ [](\A h \in Handles :
            /\ (InF(h) \/ fReturned[h] # {}) => acquired[h]
            /\ (pc[h] = "returned" /\ ~acquired[h]) =>
                   /\ fReturned[h] = {}
                   /\ doErr[h] \in {ErrNotAcquired, ErrOther})

(* a Do call with failIfLocked found the lock held and returned            *)
(* ErrNotAcquired without running f, while the f of the holder runs        *)
DoCallsFAfterAcquireWitness ==
    \E h, g \in Handles :
        /\ pc[h] = "returned" /\ ~acquired[h] /\ fReturned[h] = {}
        /\ lock[h].failIfLocked /\ doErr[h] = ErrNotAcquired
        /\ InF(g) /\ acquired[g] /\ ValidClaim(g)

(* C18: Do surfaces the error of f.  Every value that f returned during a  *)
(* Do call, a value equal to ErrNotAcquired and a FailedPrecondition       *)
(* included, is the value that the Do call returns.                        *)
DoSurfacesError ==
    \A h \in Handles :
        pc[h] = "returned" => \A e \in fReturned[h] : doErr[h] = e

(* C19: Do releases the lock on all exit paths.  When a Do call that       *)
(* acquired the lock at least once has returned, the row of the name does  *)
(* not carry the RVN of the handle of the call: Do never returns while the *)
(* row is held by its own handle.  Stated for the calls whose final        *)
(* Release met no error of the database.                                   *)
DoReleasesOnExit ==
    \A h \in Handles :
        (pc[h] = "returned" /\ acquired[h] /\ relResult[h] # ErrOther)
            => ~ValidClaim(h)

(* C20: loss of the lock reaches f.  During Do, once the heartbeat of the  *)
(* handle has exited (no row affected, an error that is not retried, or    *)
(* the parent context cancelled), the context passed to f is eventually    *)
(* cancelled; and an f that waits on that context returns only after the   *)
(* context was cancelled.                                                  *)
LossReachesF ==
    /\ \A h \in Handles : (InF(h) /\ hb[h] = "stopped") ~> hbCtxDone[h]
    /\ [][\A h \in Handles :
            (pc[h] = "fwait" /\ pc'[h] # "fwait") => hbCtxDone[h]]_vars

(* the heartbeat found the row taken over and exited, and the context of   *)
(* the f that waits on it is cancelled though the caller's context is live *)
LossReachesFWitness ==
    \E h \in Handles :
        /\ pc[h] = "fwait" /\ hb[h] = "stopped"
        /\ hbErr[h] = ErrLockAlreadyReleased
        /\ hbCtxDone[h] /\ ~ctxDone[h]

(* C21: configuration validation.  With a PostgreSQL pool, New returns     *)
(* ErrDurationTooSmall exactly when, after the options, heartbeatFrequency *)
(* > 0 and leaseDuration < 2 x heartbeatFrequency; every configuration     *)
(* with heartbeatFrequency <= 0 is accepted, and every accepted client     *)
(* with heartbeatFrequency > 0 has leaseDuration >= 2 x heartbeatFrequency. *)
ConfigurationValidation ==
    client.db = "pq" =>
        /\ client.err = ErrDurationTooSmall <=>
               /\ client.heartbeatFrequency > 0
               /\ client.leaseDuration < 2 * client.heartbeatFrequency
        /\ client.heartbeatFrequency <= 0 => client.err = "nil"
        /\ (client.err = "nil" /\ client.heartbeatFrequency > 0) =>
               client.leaseDuration >= 2 * client.heartbeatFrequency

(* the typed error that the claims expect for an error of the driver *)
ExpectedKind(err) ==
    CASE err.type = "sql.ErrNoRows" -> "NotExist"
      [] err.type = "net.OpError" -> "Unavailable"
      [] err.type = "pq.Error" /\ err.code = "40001" -> "FailedPrecondition"
      [] OTHER -> "none"

(* C22: retry discipline.  retry reissues an attempt if and only if the    *)
(* attempt failed with an error classified FailedPrecondition; every other *)
(* outcome (nil, ErrNotAcquired, ErrLockAlreadyReleased, ErrLockNotFound,  *)
(* Unavailable, any other error) is returned after that single attempt.    *)
(* So no call of Acquire, Release, SendHeartbeat or GetData returns an     *)
(* error classified FailedPrecondition.                                    *)
RetryDiscipline ==
    /\ [][retryCall'.attempts = retryCall.attempts + 1 =>
            /\ retryCall'.status = "running" <=>
                   IsKind("FailedPrecondition", retryCall'.last)
            /\ retryCall'.status = "running" <=>
                   (retryCall'.driverErr.type = "pq.Error"
                       /\ retryCall'.driverErr.code = "40001")
            /\ retryCall'.status = "returned" => retryCall'.ret = retryCall'.last
         ]_vars
    /\ [](retryCall.status = "returned" =>
            ~IsKind("FailedPrecondition", retryCall.ret))

(* a call whose first attempts met serialization failures returned the     *)
(* Unavailable error of its last attempt                                   *)
RetryDisciplineWitness ==
    /\ retryCall.status = "returned"
    /\ retryCall.attempts > 1
    /\ IsKind("Unavailable", retryCall.ret)

(* C26: error classification.  typedError maps nil to nil, sql.ErrNoRows   *)
(* to kind NotExist, a network error to Unavailable, a PostgreSQL error    *)
(* with SQLSTATE 40001 to FailedPrecondition, and returns every other      *)
(* error, a PostgreSQL error with another code included, as it is: only    *)
(* SQLSTATE 40001 gives a FailedPrecondition.                              *)
ErrorClassification ==
    retryCall.attempts > 0 =>
        LET err == retryCall.driverErr
            typed == retryCall.typed
        IN /\ err.type = "nil" <=> typed = NilError
           /\ err.type # "nil" =>
                  typed.kind = ExpectedKind(err) /\ typed.cause = err
           /\ IsKind("FailedPrecondition", typed) <=>
                  (err.type = "pq.Error" /\ err.code = "40001")

(* an attempt met a PostgreSQL error that is not a serialization failure:  *)
(* it was returned as it is, and the call returned it                      *)
ErrorClassificationWitness ==
    /\ retryCall.status = "returned"
    /\ retryCall.driverErr.type = "pq.Error"
    /\ retryCall.driverErr.code = "40P01"
    /\ retryCall.ret = Raw(retryCall.driverErr)

(* C23: GetData is a pure read.  For a name with a row it returns the data *)
(* of the row, whether the row is held or free; for a name without a row   *)
(* it returns ErrLockNotFound; and no call changes a row, a handle, the    *)
(* sequence or who holds the lock.                                         *)
GetDataIsPureRead ==
    /\ [][getResult' # getResult =>
            /\ engineVars' = engineVars
            /\ \A h \in Handles : ValidClaim(h)' <=> ValidClaim(h)
            /\ getResult'.err # ErrOther =>
                   IF table[getResult'.name].exists
                   THEN /\ getResult'.err = "ok"
                        /\ getResult'.data = table[getResult'.name].data
                   ELSE getResult'.err = ErrLockNotFound
         ]_vars
    /\ [](getResult.err = ErrLockNotFound => getResult.data = "")

(* the data of a free row (released with keepOnRelease) was read *)
GetDataIsPureReadWitness ==
    /\ getResult.err = "ok"
    /\ getResult.data = "P"
    /\ table[getResult.name].exists
    /\ table[getResult.name].rvn = NULL

(* the state of the row of a name: Absent, Free (no RVN) or Held *)
RowState(row) ==
    IF ~row.exists THEN "Absent" ELSE IF row.rvn = NULL THEN "Free" ELSE "Held"

(* C24: row state machine.  A row changes only by Absent->Held and         *)
(* Free->Held (an acquire that succeeds: the handle records the new RVN),  *)
(* Held->Held with a new RVN (a heartbeat or a takeover by a handle that   *)
(* carried the RVN of the row), Held->Free (a release with keepOnRelease)  *)
(* and Held->Absent (a release without it).  A free row is never deleted   *)
(* and never changed otherwise, and a row is freed or deleted only in the  *)
(* release of a handle that carried the RVN of the row.                    *)
RowStateMachine ==
    [][\A n \in Names :
         table'[n] # table[n] =>
            LET from == RowState(table[n])
                to == RowState(table'[n])
            IN \/ /\ from \in {"Absent", "Free"} /\ to = "Held"
                  /\ \E h \in Handles :
                        /\ lock'[h].name = n
                        /\ lock'[h].recordVersionNumber = table'[n].rvn
                        /\ pc[h] \in {"tx", "dtx"} /\ pc'[h] \in {"held", "f"}
               \/ /\ from = "Held" /\ to = "Held"
                  /\ table'[n].rvn # table[n].rvn
                  /\ \E h \in Handles :
                        /\ lock[h].name = n
                        /\ lock[h].recordVersionNumber = table[n].rvn
                        /\ lock'[h].recordVersionNumber = table'[n].rvn
               \/ /\ from = "Held" /\ to \in {"Free", "Absent"}
                  /\ to = "Free" => table'[n].data = table[n].data
                  /\ \E h \in Handles :
                        /\ lock[h].name = n
                        /\ lock[h].recordVersionNumber = table[n].rvn
                        /\ ~lock[h].isReleased /\ lock'[h].isReleased
                        /\ lock[h].keepOnRelease <=> to = "Free"
      ]_vars

(* a row that was freed by a release with keepOnRelease and is held again, *)
(* by another handle                                                       *)
RowStateMachineWitness ==
    \E h, g \in Handles :
        /\ h # g
        /\ firstRelease[h] = "ok" /\ lock[h].keepOnRelease
        /\ lock[g].name = lock[h].name
        /\ Holds(g) /\ ValidClaim(g)
        /\ lock[g].recordVersionNumber > lock[h].recordVersionNumber

(* C27: only the holder can release or refresh.  A Release on a handle     *)
(* that never completed a successful acquisition (the handle that          *)
(* AcquireContext returns with ErrNotAcquired under failIfLocked, which    *)
(* carries the RVN observed in the row of the holder) never changes a row: *)
(* it does not free or delete a lock held by another client.               *)
OnlyHolderReleases ==
    [][\A h \in Handles :
         (pc[h] = "failed" /\ lock'[h] # lock[h]) => table' = table]_vars

(* C28: Do runs f at most once.  In one Do call, whatever f returns and    *)
(* whatever the other clients do, the lock is acquired and f is invoked at *)
(* most one time: f never starts in a call that acquired the lock before.  *)
DoRunsFOnce ==
    [][\A h \in Handles : (~InF(h) /\ InF(h)') => ~acquired[h]]_vars

(* C29: the released flag is sound.  isReleased never goes from true back  *)
(* to false, and a handle whose isReleased is true does not hold the lock: *)
(* its recordVersionNumber is not the RVN of the row of its name.          *)
ReleasedFlagSound ==
    /\ [][\A h \in Handles : lock[h].isReleased => lock'[h].isReleased]_vars
    /\ [](\A h \in Handles : lock[h].isReleased => ~ValidClaim(h))

(* C30: no spurious cancellation in Do.  While f runs, the context passed  *)
(* to f is cancelled only if the parent context was cancelled, or the      *)
(* claim of the handle was lost (the row no longer carries its RVN), or a  *)
(* heartbeat failed; with heartbeats enabled and with heartbeats disabled. *)
NoSpuriousCancellation ==
    \A h \in Handles :
        (InF(h) /\ hbCtxDone[h]) =>
            \/ ctxDone[h]
            \/ ~ValidClaim(h)
            \/ hbErr[h] \in {ErrOther, ErrLockAlreadyReleased}

(* C25: per-handle mutual exclusion.  For one handle the bodies of         *)
(* storeHeartbeat and storeRelease never interleave: a Release returns     *)
(* only while no storeHeartbeat of the handle is in flight, and after a    *)
(* Release of the handle returned ok no heartbeat of that handle changes   *)
(* a row.                                                                  *)
HandleMutualExclusion ==
    [][\A h \in Handles :
          /\ (firstRelease'[h] \notin {firstRelease[h], "none"}) => hb[h] # "tx"
          /\ firstRelease[h] = "ok" =>
                ~(/\ hb[h] = "tx"
                  /\ hb'[h] = "waiting"
                  /\ table'[lock[h].name] # table[lock[h].name])
      ]_vars

(* C31: a live holder is not superseded (discrete time).  While the        *)
(* heartbeat goroutine of a holder runs with heartbeatFrequency > 0 and    *)
(* every heartbeat commits within its period, no contender in the wait     *)
(* loop of AcquireContext, sleeping its l.leaseDuration between attempts,  *)
(* takes over the lock, whatever lease the lock options gave the handles.  *)
LiveHolderNotSuperseded ==
    \A h \in Handles :
        (/\ Holds(h)
         /\ lock[h].heartbeatFrequency > 0
         /\ hb[h] \in {"waiting", "tx"}
         /\ hbErr[h] \in {"none", "ok"}) => ValidClaim(h)

============================================================================
